---- MODULE Spec2Model ----
(***************************************************************************)
(* Two-tier query cache (CacheService) and the star query endpoints that   *)
(* use it (routes/stars_api.py), as a state machine.                       *)
(*                                                                         *)
(* Coroutines are the processes of Procs.  A coroutine runs without        *)
(* interruption between two awaits, so every action below is the code      *)
(* between two consecutive awaits of one handler.  In SpecSeq a coroutine   *)
(* starts only when no other one is running (requests handled one after    *)
(* the other); in Spec they interleave at the awaits.                      *)
(*                                                                         *)
(* Numbers: times are whole seconds; float parameters are fixed-point      *)
(* integers in units of 10^-6.                                             *)
(***************************************************************************)
EXTENDS Integers, Sequences, FiniteSets, TLC

VARIABLES
    enabled,        \* CacheService.enabled
    memory_cache,   \* CacheService.memory_cache: key -> [value, timestamp]
    db,             \* table query_cache of cache.db: key -> [value (JSON text), timestamp]
    dbOk,           \* whether the SQLite file can be opened and written
    now,            \* time.time()
    task,           \* per coroutine: position and locals of the running handler
    last,           \* the call that returned most recently, with the tiers as it found them
    lastSet,        \* per key: the set() begun last, once it returned (no clear_all since)
    catalog,        \* rows of table stars in data/gaia_catalog.db, in rowid order
                    \* (of gaiadr3.gaia_source where the upstream is queried)
    calls,          \* number of calls, requests, restarts and faults so far
    probe           \* inputs and outputs of the pure functions under test

vars == <<enabled, memory_cache, db, dbOk, now, task, last, lastSet, catalog, calls, probe>>

----------------------------------------------------------------------------
(* Bounds and program constants *)

MaxTicks == 3

MaxCalls == 3

MaxRows == 3

CACHE_TTL_SECONDS == 3600

Procs == {"p1", "p2"}

TickSeconds == CACHE_TTL_SECONDS \div 2

MaxTime == MaxTicks * TickSeconds

Times == {i * TickSeconds : i \in 0..MaxTicks}

----------------------------------------------------------------------------
(* Python dicts and SQL tables as partial functions *)

EmptyMap == [k \in {} |-> TRUE]

Put(d, k, e) == [x \in (DOMAIN d) \cup {k} |-> IF x = k THEN e ELSE d[x]]

Del(d, k) == [x \in (DOMAIN d) \ {k} |-> d[x]]

Keep(d, S) == [x \in S \cap DOMAIN d |-> d[x]]

----------------------------------------------------------------------------
(* json.dumps / json.loads of a list of stars.  A star is written by its    *)
(* source_id; the text is the sequence of its tokens.                      *)

RECURSIVE JoinItems(_)
JoinItems(v) ==
    IF Len(v) = 0 THEN <<>>
    ELSE IF Len(v) = 1 THEN <<v[1]>>
    ELSE <<v[1], ",">> \o JoinItems(Tail(v))

JsonDumps(v) == <<"[">> \o JoinItems(v) \o <<"]">>

Punctuation == {"[", "]", ","}

JsonWellFormed(s) ==
    /\ Len(s) >= 2
    /\ s[1] = "["
    /\ s[Len(s)] = "]"
    /\ LET inner == SubSeq(s, 2, Len(s) - 1)
       IN  /\ (Len(inner) = 0 \/ Len(inner) % 2 = 1)
           /\ \A i \in 1..Len(inner) :
                IF i % 2 = 1 THEN inner[i] \notin Punctuation ELSE inner[i] = ","

\* [ok |-> FALSE] stands for json.JSONDecodeError
JsonLoads(s) ==
    IF JsonWellFormed(s)
    THEN LET inner == SubSeq(s, 2, Len(s) - 1)
         IN  [ok |-> TRUE, value |-> [i \in 1..((Len(inner) + 1) \div 2) |-> inner[2 * i - 1]]]
    ELSE [ok |-> FALSE, value |-> <<>>]

\* what a damaged value column holds: the text cut before its last token
Truncated(s) == SubSeq(s, 1, Len(s) - 1)

----------------------------------------------------------------------------
(* Optional[List[Dict]] *)

None == [some |-> FALSE, v |-> <<>>]

Some(v) == [some |-> TRUE, v |-> v]

\* Python truth value of an Optional[list]: None and [] are both false
Truthy(r) == r.some /\ Len(r.v) > 0

----------------------------------------------------------------------------
(* Requests and cache keys.  A request is its kind and its parameters in   *)
(* declaration order; float parameters are in units of 10^-6.              *)

NoReq == [kind |-> "none", f |-> <<>>]

RegionReq(ra, dec, radius, limit) == [kind |-> "region", f |-> <<ra, dec, radius, limit>>]

BrightReq(mag_limit) == [kind |-> "bright", f |-> <<mag_limit>>]

ConeReq(ra, dec, radius, max_stars, min_magnitude) ==
    [kind |-> "cone", f |-> <<ra, dec, radius, max_stars, min_magnitude>>]

FrustumReq(cx, cy, cz, dx, dy, dz, fov, max_distance, max_stars) ==
    [kind |-> "frustum", f |-> <<cx, cy, cz, dx, dy, dz, fov, max_distance, max_stars>>]

Abs(x) == IF x < 0 THEN -x ELSE x

RECURSIVE Pow10(_)
Pow10(n) == IF n = 0 THEN 1 ELSE 10 * Pow10(n - 1)

\* the weight of the d-th decimal place in units of 10^-6
Unit(d) == Pow10(6 - d)

\* |x| rounded to d decimals, nearest, ties to even
RoundAbs(x, d) ==
    LET u == Unit(d)
        q == Abs(x) \div u
        r == Abs(x) % u
    IN  IF 2 * r < u THEN q * u
        ELSE IF 2 * r > u THEN (q + 1) * u
        ELSE IF q % 2 = 0 THEN q * u ELSE (q + 1) * u

\* the text of a number in a key: its sign and its digits.  Rounding keeps
\* the sign of a negative input (round(-0.00001, 4) is -0.0 and is printed
\* "-0.0"; f"{-0.001:.2f}" is "-0.00").
Repr(x) == [neg |-> x < 0, abs |-> Abs(x)]

\* round(x, d) in a dict key, and f"{x:.df}" in a string key
Rounded(x, d) == [neg |-> x < 0, abs |-> RoundAbs(x, d)]

\* f"stars:region:{ra:.2f}:{dec:.2f}:{radius:.2f}:{limit}"
RegionCacheKey(r) ==
    [kind |-> "stars:region",
     f |-> <<Rounded(r.f[1], 2), Rounded(r.f[2], 2), Rounded(r.f[3], 2), Repr(r.f[4])>>]

BrightCacheKeyWhole(r) == [kind |-> "stars:bright_catalog", f |-> <<Rounded(r.f[1], 0)>>]

\* f"stars:bright_catalog:{mag_limit}"
BrightCacheKey(r) == [kind |-> "stars:bright_catalog", f |-> <<Repr(r.f[1])>>]

\* {"type": "cone", "ra": round(ra, 4), ..., "max_stars": ..., "min_mag": min_magnitude}
\* in sort_keys order: dec, max_stars, min_mag, ra, radius
ConeCacheKey(r) ==
    [kind |-> "cone",
     f |-> <<Rounded(r.f[2], 4), Repr(r.f[4]), Repr(r.f[5]), Rounded(r.f[1], 4),
             Rounded(r.f[3], 4)>>]

\* {"type": "frustum", "cam": [...], "dir": [...], "fov": ..., "dist": ..., "max": ...}
\* in sort_keys order: cam, dir, dist, fov, max
FrustumCacheKey(r) ==
    [kind |-> "frustum",
     f |-> <<Rounded(r.f[1], 2), Rounded(r.f[2], 2), Rounded(r.f[3], 2),
             Rounded(r.f[4], 3), Rounded(r.f[5], 3), Rounded(r.f[6], 3),
             Rounded(r.f[8], 1), Rounded(r.f[7], 1), Repr(r.f[9])>>]

CacheKeyOf(r) ==
    CASE r.kind = "region" -> RegionCacheKey(r)
      [] r.kind = "bright" -> BrightCacheKey(r)
      [] r.kind = "cone" -> ConeCacheKey(r)
      [] r.kind = "frustum" -> FrustumCacheKey(r)

\* sha256 of json.dumps(query_params, sort_keys=True): the digest stands for
\* the canonical text it was computed from (SHA-256 taken as collision-free)
GenerateKey(query_params) == [sha256 |-> query_params]

NoKey == GenerateKey([kind |-> "none", f |-> <<>>])

----------------------------------------------------------------------------
(* Coroutine records *)

NoRow == [present |-> FALSE, value |-> <<>>, timestamp |-> 0]

NoStats == [enabled |-> FALSE, memory_entries |-> 0, db_entries |-> 0, ttl_seconds |-> 0]

NoResponse == [status |-> "none", stars |-> <<>>, cached |-> FALSE]

\* the request answered just before this one when it was the same request,
\* its response and the time of it
NoPrev == [req |-> NoReq, response |-> NoResponse, t |-> 0]

IdleTask ==
    [pc |-> "idle", op |-> "none", req |-> NoReq, key |-> NoKey, t |-> 0, val |-> <<>>,
     row |-> NoRow, err |-> FALSE, preMem |-> EmptyMap, preDb |-> EmptyMap,
     lookup |-> None, queried |-> FALSE, n |-> 0, selected |-> FALSE, down |-> FALSE,
     settled |-> FALSE, prev |-> NoPrev]

NoLast ==
    [op |-> "none", req |-> NoReq, key |-> NoKey, t |-> 0, arg |-> <<>>, result |-> None,
     stats |-> NoStats, err |-> FALSE, raised |-> FALSE, preMem |-> EmptyMap,
     preDb |-> EmptyMap, lookup |-> None, queried |-> FALSE, response |-> NoResponse,
     selected |-> FALSE, down |-> FALSE, settled |-> FALSE, prev |-> NoPrev]

\* a call of op by coroutine p on behalf of request req, entered now
Enter(op, req) ==
    [IdleTask EXCEPT !.op = op, !.req = req, !.t = now, !.down = ~dbOk,
                     !.preMem = memory_cache, !.preDb = db,
                     !.prev = IF last.op = "api" /\ last.req = req
                              THEN [req |-> last.req, response |-> last.response, t |-> last.t]
                              ELSE NoPrev]

\* the same for a call that reads and writes one key only
OnKey(tk0, key) ==
    [tk0 EXCEPT !.key = key, !.preMem = Keep(memory_cache, {key}), !.preDb = Keep(db, {key})]

Idle(p) == task[p].pc = "idle"

FreshInclusive(current_time, timestamp) == current_time - timestamp <= CACHE_TTL_SECONDS

\* current_time - timestamp < self.ttl
Fresh(current_time, timestamp) == current_time - timestamp < CACHE_TTL_SECONDS

CatchesAllButSet(op) == op \in {"get", "clear_expired", "stats", "clear_all"}

\* the except clauses around the SQLite blocks of CacheService: an exception
\* of the durable tier is caught and logged inside the method
CatchesDurableError(op) == op \in {"get", "set", "clear_expired", "stats", "clear_all"}

\* the call of coroutine p (record tk) returns res; e: the durable tier failed in it.
\* A direct call is recorded in last; a call made by an endpoint resumes the endpoint.
Return(p, tk, res, st, e) ==
    LET esc == e /\ ~CatchesDurableError(tk.op)
    IN  IF tk.req.kind = "none"
        THEN /\ task' = [task EXCEPT ![p] = IdleTask]
             /\ last' = [NoLast EXCEPT !.op = tk.op, !.key = tk.key, !.t = tk.t,
                                       !.arg = tk.val, !.result = res, !.stats = st,
                                       !.err = e, !.raised = esc,
                                       !.selected = tk.selected, !.down = tk.down,
                                       !.settled = tk.settled,
                                       !.preMem = tk.preMem, !.preDb = tk.preDb]
        ELSE /\ task' = [task EXCEPT ![p] =
                            [tk EXCEPT !.pc = IF esc THEN "api_except"
                                              ELSE IF tk.op = "get" THEN "api_got"
                                              ELSE "api_respond",
                                       !.lookup = IF tk.op = "get" THEN res ELSE tk.lookup,
                                       !.err = tk.err \/ e]]
             /\ last' = last

----------------------------------------------------------------------------
(* CacheService.get *)

\* lines 61-75: the disabled check, the key, the clock, the memory cache
GetEnter(p, tk0, query_params) ==
    LET key == GenerateKey(query_params)
        tk == [OnKey(tk0, key) EXCEPT !.settled = key \in DOMAIN lastSet]
    IN  IF ~enabled
        THEN /\ Return(p, tk, None, NoStats, FALSE)
             /\ UNCHANGED <<memory_cache, db, lastSet>>
        ELSE IF key \in DOMAIN memory_cache /\ Fresh(tk.t, memory_cache[key].timestamp)
        THEN /\ Return(p, tk, Some(memory_cache[key].value), NoStats, FALSE)
             /\ UNCHANGED <<memory_cache, db, lastSet>>
        ELSE /\ memory_cache' = Del(memory_cache, key)
             /\ task' = [task EXCEPT ![p] = [tk EXCEPT !.pc = "get_select"]]
             /\ last' = NoLast
         /\ UNCHANGED <<db, lastSet>>

\* lines 79-84: connect and SELECT value, timestamp
GetSelect(p) ==
    /\ task[p].pc = "get_select"
    /\ IF ~dbOk
       THEN Return(p, task[p], None, NoStats, TRUE)
       ELSE /\ task' = [task EXCEPT ![p].pc = "get_row",
                                    ![p].selected = TRUE,
                                    ![p].row = IF task[p].key \in DOMAIN db
                                               THEN [present |-> TRUE,
                                                     value |-> db[task[p].key].value,
                                                     timestamp |-> db[task[p].key].timestamp]
                                               ELSE NoRow]
            /\ last' = last
    /\ UNCHANGED <<enabled, memory_cache, db, dbOk, now, lastSet, catalog, calls, probe>>

\* a promotion stamping the entry with the time of the read
PromoteTouched(mem, key, value, timestamp) ==
    Put(mem, key, [value |-> value, timestamp |-> now])

PromoteSkipped(mem, key, value, timestamp) == mem

\* lines 90-94: self.memory_cache[key] = {'value': value, 'timestamp': timestamp}
Promote(mem, key, value, timestamp) ==
    Put(mem, key, [value |-> value, timestamp |-> timestamp])

\* lines 86-98: the row fetched: promote it, or go on to delete it, or miss
GetRow(p) ==
    LET tk == task[p]
        parsed == JsonLoads(tk.row.value)
    IN  /\ tk.pc = "get_row"
        /\ IF ~tk.row.present
           THEN /\ Return(p, tk, None, NoStats, FALSE)
                /\ memory_cache' = memory_cache
           ELSE IF Fresh(tk.t, tk.row.timestamp)
           THEN IF parsed.ok
                THEN /\ memory_cache' = Promote(memory_cache, tk.key, parsed.value,
                                                tk.row.timestamp)
                     /\ Return(p, tk, Some(parsed.value), NoStats, FALSE)
                ELSE /\ Return(p, tk, None, NoStats, TRUE)
                     /\ memory_cache' = memory_cache
           ELSE /\ task' = [task EXCEPT ![p].pc = "get_delete"]
                /\ UNCHANGED <<memory_cache, last>>
        /\ UNCHANGED <<enabled, db, dbOk, now, lastSet, catalog, calls, probe>>

DeleteNothing(table, key) == table

\* DELETE FROM query_cache WHERE key = ?
DeleteRow(table, key) == Del(table, key)

\* lines 99-103: DELETE the expired row and commit
GetDelete(p) ==
    /\ task[p].pc = "get_delete"
    /\ IF ~dbOk
       THEN /\ Return(p, task[p], None, NoStats, TRUE)
            /\ db' = db
       ELSE /\ db' = DeleteRow(db, task[p].key)
            /\ Return(p, task[p], None, NoStats, FALSE)
    /\ UNCHANGED <<enabled, memory_cache, dbOk, now, lastSet, catalog, calls, probe>>

----------------------------------------------------------------------------
(* CacheService.set *)

\* lines 112-122: the disabled check, the key, the clock, the memory cache
SetEnter(p, tk0, query_params, value) ==
    LET key == GenerateKey(query_params)
        tk == [OnKey(tk0, key) EXCEPT !.val = value, !.settled = TRUE]
    IN  IF ~enabled
        THEN /\ Return(p, tk, None, NoStats, FALSE)
             /\ UNCHANGED <<memory_cache, db, lastSet>>
        ELSE /\ memory_cache' = Put(memory_cache, key, [value |-> value, timestamp |-> tk.t])
             /\ task' = [q \in Procs |->
                            IF q = p THEN [tk EXCEPT !.pc = "set_insert"]
                            ELSE [task[q] EXCEPT !.settled = task[q].settled /\ task[q].key # key]]
             /\ lastSet' = Del(lastSet, key)
             /\ last' = NoLast
             /\ UNCHANGED db

InsertOrIgnore(table, key, row) == IF key \in DOMAIN table THEN table ELSE Put(table, key, row)

\* INSERT OR REPLACE INTO query_cache (key, value, timestamp) VALUES (?, ?, ?)
InsertOrReplace(table, key, row) == Put(table, key, row)

\* lines 125-136: INSERT OR REPLACE and commit
SetInsert(p) ==
    LET tk == task[p]
    IN  /\ tk.pc = "set_insert"
        /\ IF ~dbOk
           THEN /\ Return(p, tk, None, NoStats, TRUE)
                /\ db' = db
           ELSE /\ db' = InsertOrReplace(db, tk.key,
                                         [value |-> JsonDumps(tk.val), timestamp |-> tk.t])
                /\ Return(p, tk, None, NoStats, FALSE)
        /\ lastSet' = IF ~tk.settled
                      THEN lastSet
                      ELSE Put(lastSet, tk.key,
                               [value |-> tk.val, timestamp |-> tk.t, durable |-> dbOk,
                                replaced |-> tk.key \in DOMAIN tk.preMem
                                             /\ tk.key \in DOMAIN tk.preDb
                                             /\ tk.preMem[tk.key].value # tk.val])
        /\ UNCHANGED <<enabled, memory_cache, dbOk, now, catalog, calls, probe>>

----------------------------------------------------------------------------
(* CacheService.clear_expired, stats, clear_all *)

AtOrBeforeCutoff(current_time, timestamp) == timestamp <= current_time - CACHE_TTL_SECONDS

\* a sweep comparing with the clock instead of the cutoff
OlderThanNow(current_time, timestamp) == timestamp < current_time

\* v['timestamp'] < cutoff, with cutoff = current_time - self.ttl
OlderThanCutoff(current_time, timestamp) == timestamp < current_time - CACHE_TTL_SECONDS

Unexpired(d, current_time) == {k \in DOMAIN d : ~OlderThanCutoff(current_time, d[k].timestamp)}

\* lines 140-152: the disabled check, the cutoff, the memory cache
SweepEnter(p, tk) ==
    IF ~enabled
    THEN /\ Return(p, tk, None, NoStats, FALSE)
         /\ UNCHANGED <<memory_cache, db, lastSet>>
    ELSE /\ memory_cache' = Keep(memory_cache, Unexpired(memory_cache, tk.t))
         /\ task' = [task EXCEPT ![p] = [tk EXCEPT !.pc = "sweep_delete"]]
         /\ last' = NoLast
         /\ UNCHANGED <<db, lastSet>>

\* lines 155-167: DELETE FROM query_cache WHERE timestamp < cutoff, commit
SweepDelete(p) ==
    /\ task[p].pc = "sweep_delete"
    /\ IF ~dbOk
       THEN /\ Return(p, task[p], None, NoStats, TRUE)
            /\ db' = db
       ELSE /\ db' = Keep(db, Unexpired(db, task[p].t))
            /\ Return(p, task[p], None, NoStats, FALSE)
    /\ UNCHANGED <<enabled, memory_cache, dbOk, now, lastSet, catalog, calls, probe>>

\* stats() dropping the expired entries of the memory cache before it counts
StatsPurging(p, tk) ==
    /\ memory_cache' = Keep(memory_cache, Unexpired(memory_cache, tk.t))
    /\ task' = [task EXCEPT ![p] = [tk EXCEPT !.pc = "stats_count",
                                              !.n = Cardinality(DOMAIN memory_cache')]]
    /\ last' = NoLast
    /\ UNCHANGED <<db, lastSet>>

\* lines 171-176: the dict built before the first await
StatsEnter(p, tk) ==
    /\ task' = [task EXCEPT ![p] = [tk EXCEPT !.pc = "stats_count",
                                              !.n = Cardinality(DOMAIN memory_cache)]]
    /\ last' = NoLast
    /\ UNCHANGED <<memory_cache, db, lastSet>>

\* lines 178-186: SELECT COUNT(*), any exception passed over
StatsCount(p) ==
    LET st == [enabled |-> enabled, memory_entries |-> task[p].n,
               db_entries |-> IF dbOk THEN Cardinality(DOMAIN db) ELSE 0,
               ttl_seconds |-> CACHE_TTL_SECONDS]
    IN  /\ task[p].pc = "stats_count"
        /\ Return(p, task[p], None, st, ~dbOk)
        /\ UNCHANGED <<enabled, memory_cache, db, dbOk, now, lastSet, catalog, calls, probe>>

\* line 190: self.memory_cache.clear()
ClearAllEnter(p, tk) ==
    /\ memory_cache' = EmptyMap
    /\ task' = [task EXCEPT ![p] = [tk EXCEPT !.pc = "clear_all_delete"]]
    /\ lastSet' = EmptyMap
    /\ last' = NoLast
    /\ UNCHANGED db

\* lines 191-196: DELETE FROM query_cache, commit
ClearAllDelete(p) ==
    /\ task[p].pc = "clear_all_delete"
    /\ IF ~dbOk
       THEN /\ Return(p, task[p], None, NoStats, TRUE)
            /\ db' = db
       ELSE /\ db' = EmptyMap
            /\ Return(p, task[p], None, NoStats, FALSE)
    /\ UNCHANGED <<enabled, memory_cache, dbOk, now, lastSet, catalog, calls, probe>>

----------------------------------------------------------------------------
(* Calls made on the cache service directly, and the environment *)

\* the keys and values the direct calls use
QueryParams ==
    {RegionCacheKey(RegionReq(266416800, -29007800, 5000000, 100)),
     RegionCacheKey(RegionReq(10000000, 20000000, 5000000, 100))}

Values == {<<"s1">>, <<"s2", "s1">>}

MayStartAlone(p, serial) ==
    /\ Idle(p)
    /\ \A q \in Procs : Idle(q)
    /\ probe.fn = "query_cone_async" => probe.pc \notin {"attempt", "backoff"}
    /\ calls < MaxCalls
    /\ calls' = calls + 1

\* a coroutine may start: always when requests overlap, and when they are
\* handled one after the other only while no other coroutine is running
MayStart(p, serial) ==
    /\ Idle(p)
    /\ serial => \A q \in Procs : Idle(q)
    /\ calls < MaxCalls
    /\ calls' = calls + 1

Get(p, serial) ==
    /\ MayStart(p, serial)
    /\ \E q \in QueryParams : GetEnter(p, Enter("get", NoReq), q)
    /\ UNCHANGED <<enabled, dbOk, now, catalog, probe>>

Set(p, serial) ==
    /\ MayStart(p, serial)
    /\ \E q \in QueryParams, v \in Values : SetEnter(p, Enter("set", NoReq), q, v)
    /\ UNCHANGED <<enabled, dbOk, now, catalog, probe>>

ClearExpired(p, serial) ==
    /\ MayStart(p, serial)
    /\ SweepEnter(p, Enter("clear_expired", NoReq))
    /\ UNCHANGED <<enabled, dbOk, now, catalog, probe>>

Stats(p, serial) ==
    /\ MayStart(p, serial)
    /\ StatsEnter(p, Enter("stats", NoReq))
    /\ UNCHANGED <<enabled, dbOk, now, catalog, probe>>

ClearAll(p, serial) ==
    /\ MayStart(p, serial)
    /\ ClearAllEnter(p, Enter("clear_all", NoReq))
    /\ UNCHANGED <<enabled, dbOk, now, catalog, probe>>

\* time passes; a call is short against the step of the clock
Tick ==
    /\ now < MaxTime
    /\ \A p \in Procs : Idle(p)
    /\ now' = now + TickSeconds
    /\ UNCHANGED <<enabled, memory_cache, db, dbOk, task, last, lastSet, catalog, calls, probe>>

\* the process stops and a new one starts: a new CacheService with an empty
\* memory_cache over the same cache.db; running coroutines are gone
Restart ==
    /\ calls < MaxCalls
    /\ calls' = calls + 1
    /\ memory_cache' = EmptyMap
    /\ task' = [p \in Procs |-> IdleTask]
    /\ last' = NoLast
    /\ UNCHANGED <<enabled, db, dbOk, now, lastSet, catalog, probe>>

\* cache.db becomes unusable (aiosqlite.connect or execute raises), or usable again
DbDown ==
    /\ dbOk
    /\ calls < MaxCalls
    /\ calls' = calls + 1
    /\ dbOk' = FALSE
    /\ UNCHANGED <<enabled, memory_cache, db, now, task, last, lastSet, catalog, probe>>

DbUp ==
    /\ ~dbOk
    /\ dbOk' = TRUE
    /\ UNCHANGED <<enabled, memory_cache, db, now, task, last, lastSet, catalog, calls, probe>>

\* the value column of a row is damaged on disk, between two calls
Corrupt ==
    /\ \A p \in Procs : Idle(p)
    /\ calls < MaxCalls
    /\ calls' = calls + 1
    /\ \E k \in DOMAIN db :
        /\ JsonWellFormed(db[k].value)
        /\ db' = [db EXCEPT ![k].value = Truncated(db[k].value)]
        /\ lastSet' = IF k \in DOMAIN lastSet
                      THEN [lastSet EXCEPT ![k].durable = FALSE]
                      ELSE lastSet
    /\ last' = NoLast
    /\ UNCHANGED <<enabled, memory_cache, dbOk, now, task, catalog, probe>>

----------------------------------------------------------------------------
(* The cache service alone *)

NoProbe == [fn |-> "none"]

CacheInit ==
    /\ enabled \in BOOLEAN
    /\ memory_cache = EmptyMap
    /\ db = EmptyMap
    /\ dbOk = TRUE
    /\ now = 0
    /\ task = [p \in Procs |-> IdleTask]
    /\ last = NoLast
    /\ lastSet = EmptyMap
    /\ catalog = <<>>
    /\ calls = 0
    /\ probe = NoProbe

CacheStep(serial) ==
    \/ \E p \in Procs : Get(p, serial)
    \/ \E p \in Procs : GetSelect(p)
    \/ \E p \in Procs : GetRow(p)
    \/ \E p \in Procs : GetDelete(p)
    \/ \E p \in Procs : Set(p, serial)
    \/ \E p \in Procs : SetInsert(p)
    \/ \E p \in Procs : ClearExpired(p, serial)
    \/ \E p \in Procs : SweepDelete(p)
    \/ \E p \in Procs : Stats(p, serial)
    \/ \E p \in Procs : StatsCount(p)
    \/ \E p \in Procs : ClearAll(p, serial)
    \/ \E p \in Procs : ClearAllDelete(p)
    \/ Tick
    \/ Restart
    \/ DbDown
    \/ DbUp
    \/ Corrupt

\* calls handled one after the other
NextSeq == CacheStep(TRUE)

SpecSeq == CacheInit /\ [][NextSeq]_vars

\* calls overlapping at their awaits
Next == CacheStep(FALSE)

Spec == CacheInit /\ [][Next]_vars

----------------------------------------------------------------------------
(* Properties of the cache service, calls handled one after the other *)

Age(current_time, timestamp) == current_time - timestamp

HasFresh(d, k, current_time) ==
    k \in DOMAIN d /\ Age(current_time, d[k].timestamp) < CACHE_TTL_SECONDS

\* C1: with caching enabled and the durable tier working, a get(k) issued at
\* time t' after the latest set(k, v), stamped t, returns v when t' - t < TTL
\* and absent when t' - t >= TTL, whatever gets, sweeps and restarts came
\* between.
C1_GetAfterSet ==
    (/\ last.op = "get"
     /\ enabled
     /\ ~last.err
     /\ last.key \in DOMAIN lastSet
     /\ lastSet[last.key].durable)
    => last.result = IF Age(last.t, lastSet[last.key].timestamp) < CACHE_TTL_SECONDS
                     THEN Some(lastSet[last.key].value)
                     ELSE None

\* a get answered with the value of an earlier set from the durable tier,
\* the memory cache having lost it, some time after the set
C1_Witness ==
    /\ last.op = "get"
    /\ enabled
    /\ ~last.err
    /\ last.key \in DOMAIN lastSet
    /\ lastSet[last.key].durable
    /\ last.key \notin DOMAIN last.preMem
    /\ last.t > lastSet[last.key].timestamp
    /\ last.result = Some(lastSet[last.key].value)

\* C3: a get(k) that finds k absent or expired in the volatile tier and an
\* unexpired (v, ts) in the durable tier returns v and leaves (v, ts) in the
\* volatile tier; a get that finds an unexpired volatile entry returns it
\* without reading the durable tier.
C3_PromoteOnRead ==
    /\ (/\ last.op = "get"
        /\ enabled
        /\ ~last.err
        /\ ~HasFresh(last.preMem, last.key, last.t)
        /\ HasFresh(last.preDb, last.key, last.t))
       => /\ last.result.some
          /\ JsonDumps(last.result.v) = last.preDb[last.key].value
          /\ last.key \in DOMAIN memory_cache
          /\ memory_cache[last.key] = [value |-> last.result.v,
                                       timestamp |-> last.preDb[last.key].timestamp]
    /\ (/\ last.op = "get"
        /\ enabled
        /\ HasFresh(last.preMem, last.key, last.t))
       => /\ last.result = Some(last.preMem[last.key].value)
          /\ ~last.selected

\* a get promoted a durable row written before the current process started
C3_Witness ==
    /\ last.op = "get"
    /\ ~last.err
    /\ last.key \notin DOMAIN last.preMem
    /\ HasFresh(last.preDb, last.key, last.t)
    /\ last.selected
    /\ last.result.some
    /\ last.key \in DOMAIN memory_cache

\* C4: a get(k) that finds k absent or expired in the volatile tier and
\* expired (age >= TTL) in the durable tier returns absent and leaves k in
\* neither tier (the durable tier working).
C4_ExpiredOnRead ==
    (/\ last.op = "get"
     /\ enabled
     /\ ~last.err
     /\ ~HasFresh(last.preMem, last.key, last.t)
     /\ last.key \in DOMAIN last.preDb
     /\ Age(last.t, last.preDb[last.key].timestamp) >= CACHE_TTL_SECONDS)
    => /\ last.result = None
       /\ last.key \notin DOMAIN memory_cache
       /\ last.key \notin DOMAIN db

\* a get found the key expired in both tiers, at the age of exactly TTL
C4_Witness ==
    /\ last.op = "get"
    /\ ~last.err
    /\ last.key \in DOMAIN last.preMem
    /\ last.key \in DOMAIN last.preDb
    /\ Age(last.t, last.preDb[last.key].timestamp) = CACHE_TTL_SECONDS
    /\ last.result = None
    /\ last.key \notin DOMAIN db

\* C5: set(k, v) replaces any entry of k in both tiers by (v, time of the
\* set): after it both tiers hold exactly v with its timestamp, and a later
\* get within TTL returns the value of the latest set.
C5_LastWriteWins ==
    /\ (last.op = "set" /\ enabled /\ ~last.err)
       => /\ last.key \in DOMAIN memory_cache
          /\ memory_cache[last.key] = [value |-> last.arg, timestamp |-> last.t]
          /\ last.key \in DOMAIN db
          /\ db[last.key].timestamp = last.t
          /\ JsonLoads(db[last.key].value) = [ok |-> TRUE, value |-> last.arg]
    /\ (/\ last.op = "get"
        /\ enabled
        /\ ~last.err
        /\ last.key \in DOMAIN lastSet
        /\ lastSet[last.key].replaced
        /\ lastSet[last.key].durable
        /\ Age(last.t, lastSet[last.key].timestamp) < CACHE_TTL_SECONDS)
       => last.result = Some(lastSet[last.key].value)

\* a set replaced an entry that held another value, written at another time
C5_Witness ==
    /\ last.op = "set"
    /\ ~last.err
    /\ last.key \in DOMAIN last.preMem
    /\ last.key \in DOMAIN last.preDb
    /\ last.preMem[last.key].value # last.arg
    /\ last.preMem[last.key].timestamp < last.t
    /\ JsonLoads(last.preDb[last.key].value).value # last.arg

Expired(d, current_time) ==
    {k \in DOMAIN d : Age(current_time, d[k].timestamp) > CACHE_TTL_SECONDS}

\* C6: after sweep() neither tier holds an entry older than TTL, every entry
\* younger than TTL is unchanged in both tiers, and the number of volatile
\* entries, which is what stats() reports, has dropped by the number of
\* volatile entries older than TTL.
C6_Sweep ==
    /\ (last.op = "clear_expired" /\ enabled /\ ~last.err)
       => /\ Expired(memory_cache, last.t) = {}
          /\ Expired(db, last.t) = {}
          /\ \A k \in DOMAIN last.preMem :
                Age(last.t, last.preMem[k].timestamp) < CACHE_TTL_SECONDS
                => k \in DOMAIN memory_cache /\ memory_cache[k] = last.preMem[k]
          /\ \A k \in DOMAIN last.preDb :
                Age(last.t, last.preDb[k].timestamp) < CACHE_TTL_SECONDS
                => k \in DOMAIN db /\ db[k] = last.preDb[k]
          /\ Cardinality(DOMAIN memory_cache) =
                Cardinality(DOMAIN last.preMem) - Cardinality(Expired(last.preMem, last.t))
    /\ last.op = "stats"
       => last.stats.memory_entries = Cardinality(DOMAIN memory_cache)

\* a sweep removed one key from both tiers and kept another in both
C6_Witness ==
    /\ last.op = "clear_expired"
    /\ ~last.err
    /\ \E k1, k2 \in DOMAIN last.preMem :
        /\ k1 \in DOMAIN last.preDb
        /\ k1 \notin DOMAIN memory_cache
        /\ k1 \notin DOMAIN db
        /\ k2 \in DOMAIN memory_cache
        /\ k2 \in DOMAIN db

----------------------------------------------------------------------------
(* Properties of the cache service, calls overlapping *)

\* C2: reads and writes of one key in the volatile tier are serialized, no
\* update is lost: once set(k, v) has returned and no other set on k has
\* begun, the volatile tier holds v for k if it holds k at all, and every
\* get(k) issued since, within TTL, returns v.
C2_NoLostUpdate ==
    /\ \A k \in DOMAIN lastSet :
        (k \in DOMAIN memory_cache /\ Age(now, lastSet[k].timestamp) < CACHE_TTL_SECONDS)
        => memory_cache[k].value = lastSet[k].value
    /\ (/\ last.op = "get"
        /\ enabled
        /\ ~last.err
        /\ last.settled
        /\ last.key \in DOMAIN lastSet
        /\ lastSet[last.key].durable
        /\ Age(last.t, lastSet[last.key].timestamp) < CACHE_TTL_SECONDS)
       => last.result = Some(lastSet[last.key].value)

----------------------------------------------------------------------------
(* The local catalog (services/local_catalog_service.py).  A row of table   *)
(* stars: source_id, ra, dec and magnitude in units of 10^-6, x, y, z in    *)
(* parsecs.  A star dictionary of a result is written by its source_id.    *)

Star(source_id, ra, dec, magnitude, x, y, z) ==
    [source_id |-> source_id, ra |-> ra, dec |-> dec, magnitude |-> magnitude,
     x |-> x, y |-> y, z |-> z]

\* the square of SQRT((x - ?) * (x - ?) + (y - ?) * (y - ?) + (z - ?) * (z - ?))
DistanceSq(row, cx, cy, cz) ==
    (row.x - cx) * (row.x - cx) + (row.y - cy) * (row.y - cy) + (row.z - cz) * (row.z - cz)

OrderByUnsettled(rows, keys) ==
    LET n == Len(rows)
        Before(i, j) == \/ keys[i][1] < keys[j][1]
                        \/ (keys[i][1] = keys[j][1] /\ keys[i][2] < keys[j][2])
        Tied(i, j) == IF probe.run = 0 THEN j < i ELSE j > i
        Rank(i) == 1 + Cardinality({j \in 1..n :
                                      Before(j, i) \/ (~Before(i, j) /\ Tied(i, j))})
    IN  [k \in 1..n |-> rows[CHOOSE i \in 1..n : Rank(i) = k]]

\* ORDER BY two columns ascending: keys[i] is the pair of sort columns of
\* rows[i]; rows that tie come in table order
OrderBy(rows, keys) ==
    LET n == Len(rows)
        Before(i, j) == \/ keys[i][1] < keys[j][1]
                        \/ (keys[i][1] = keys[j][1] /\ keys[i][2] < keys[j][2])
        Rank(i) == 1 + Cardinality({j \in 1..n :
                                      Before(j, i) \/ (~Before(i, j) /\ j < i)})
    IN  [k \in 1..n |-> rows[CHOOSE i \in 1..n : Rank(i) = k]]

\* LIMIT ?
Limit(rows, n) == SubSeq(rows, 1, IF Len(rows) < n THEN Len(rows) ELSE n)

\* the list of star dictionaries built from the cursor
StarList(rows) == [i \in 1..Len(rows) |-> rows[i].source_id]

\* _query_nearby_stars_sync: WHERE magnitude < ? HAVING distance_from_camera < ?
\* ORDER BY distance_from_camera ASC, magnitude ASC LIMIT ?
NearbyRows(table, cx, cy, cz, max_distance, max_stars, mag_limit) ==
    LET Near(row) == /\ row.magnitude < mag_limit
                     /\ DistanceSq(row, cx, cy, cz) < max_distance * max_distance
        rows == SelectSeq(table, Near)
        keys == [i \in 1..Len(rows) |->
                    <<DistanceSq(rows[i], cx, cy, cz), rows[i].magnitude>>]
    IN  Limit(OrderBy(rows, keys), max_stars)

\* _query_all_bright_stars_sync: WHERE magnitude < ? ORDER BY magnitude ASC
AllBrightRows(table, mag_limit) ==
    LET Bright(row) == row.magnitude < mag_limit
        rows == SelectSeq(table, Bright)
        keys == [i \in 1..Len(rows) |-> <<rows[i].magnitude, 0>>]
    IN  OrderBy(rows, keys)

\* the two SELECT statements, by what decides whether SQLite prepares them
NearbyQuery == [name |-> "nearby", having |-> TRUE, group_by |-> FALSE, aggregate |-> FALSE]

BrightQuery == [name |-> "bright", having |-> FALSE, group_by |-> FALSE, aggregate |-> FALSE]

RejectedNever(query) == FALSE

\* conn.execute(query, ...) raises sqlite3.OperationalError ("HAVING clause
\* on a non-aggregate query"; before SQLite 3.39 "a GROUP BY clause is
\* required before HAVING") for a HAVING clause in a query that neither
\* groups nor aggregates
Rejected(query) == query.having /\ ~query.group_by /\ ~query.aggregate

\* self.db_path.exists(), and whether SQLite can read table stars of the file;
\* where the state of the file is not followed it is there and readable
CatalogExists == probe.fn = "store" => probe.exists

CatalogReadable == probe.fn = "store" => probe.readable

\* conn.execute raises
QueryFails(query) == ~CatalogReadable \/ Rejected(query)

CatchesNothing == FALSE

\* except Exception as e: logger.error(...); return []
CatchesQueryError == TRUE

\* the star dictionaries a query returns: none when the file is missing,
\* none when the query raised
NearbyStars(table, cx, cy, cz, max_distance, max_stars, mag_limit) ==
    IF ~CatalogExists \/ QueryFails(NearbyQuery)
    THEN <<>>
    ELSE StarList(NearbyRows(table, cx, cy, cz, max_distance, max_stars, mag_limit))

AllBrightStars(table, mag_limit) ==
    IF ~CatalogExists \/ QueryFails(BrightQuery)
    THEN <<>>
    ELSE StarList(AllBrightRows(table, mag_limit))

\* the query raises to the endpoint that awaits it
ServiceRaises(query) == CatalogExists /\ QueryFails(query) /\ ~CatchesQueryError

----------------------------------------------------------------------------
(* The endpoints of routes/stars_api.py *)

\* lines 10-12: the names the module imports
Imported == {"local_catalog_service", "cache_service", "settings"}

\* the service an endpoint calls on a cache miss
QueryService(kind) ==
    IF kind \in {"cone", "frustum"} THEN "gaia_service" ELSE "local_catalog_service"

\* the query an endpoint runs on a cache miss: query_region asks for the stars
\* within 1000 pc of the origin brighter than magnitude 12, whatever ra, dec,
\* radius and limit are (max_stars left at its default); get_bright_catalog
\* asks for the stars brighter than mag_limit
QueryResult(r, table) ==
    IF r.kind = "region"
    THEN NearbyStars(table, 0, 0, 0, 1000, 50000, 12000000)
    ELSE AllBrightStars(table, r.f[1])

\* the SELECT statement behind the query of an endpoint
QueryOf(r) == IF r.kind = "region" THEN NearbyQuery ELSE BrightQuery

\* the endpoint of coroutine p returns a response or raises HTTPException
Respond(p, tk, response) ==
    /\ task' = [task EXCEPT ![p] = IdleTask]
    /\ last' = [NoLast EXCEPT !.op = "api", !.req = tk.req, !.key = tk.key, !.t = tk.t,
                              !.arg = tk.val, !.lookup = tk.lookup, !.queried = tk.queried,
                              !.err = tk.err, !.selected = tk.selected, !.down = tk.down,
                              !.response = response, !.prev = tk.prev,
                              !.preMem = tk.preMem, !.preDb = tk.preDb]

\* "if cached_result:" and the cached response; otherwise the name of the
\* service is looked up: gaia_service is not defined in this module, so
\* query_cone and query_frustum raise NameError here
ApiGot(p) ==
    LET tk == task[p]
    IN  /\ tk.pc = "api_got"
        /\ IF Truthy(tk.lookup)
           THEN Respond(p, tk, [status |-> "ok", stars |-> tk.lookup.v, cached |-> TRUE])
           ELSE /\ task' = [task EXCEPT ![p].pc = IF QueryService(tk.req.kind) \in Imported
                                                  THEN "api_query"
                                                  ELSE "api_except"]
                /\ last' = last
        /\ UNCHANGED <<enabled, memory_cache, db, dbOk, now, lastSet, catalog, calls, probe>>

\* the query has run in the executor; cache_service.set(cache_key, stars)
\* begins, or the exception of the query is caught by the endpoint
ApiQuery(p) ==
    LET tk == task[p]
    IN  /\ tk.pc = "api_query"
        /\ IF ServiceRaises(QueryOf(tk.req))
           THEN /\ task' = [task EXCEPT ![p].pc = "api_except", ![p].queried = TRUE]
                /\ UNCHANGED <<memory_cache, db, last, lastSet>>
           ELSE SetEnter(p, [tk EXCEPT !.op = "set", !.t = now, !.queried = TRUE],
                         CacheKeyOf(tk.req), QueryResult(tk.req, catalog))
        /\ UNCHANGED <<enabled, dbOk, now, catalog, calls, probe>>

\* the response built from the stars just queried
ApiRespond(p) ==
    /\ task[p].pc = "api_respond"
    /\ Respond(p, task[p], [status |-> "ok", stars |-> task[p].val, cached |-> FALSE])
    /\ UNCHANGED <<enabled, memory_cache, db, dbOk, now, lastSet, catalog, calls, probe>>

\* except Exception as e: raise HTTPException(status_code=500, ...)
ApiExcept(p) ==
    /\ task[p].pc = "api_except"
    /\ Respond(p, task[p], [status |-> "error", stars |-> <<>>, cached |-> FALSE])
    /\ UNCHANGED <<enabled, memory_cache, db, dbOk, now, lastSet, catalog, calls, probe>>

\* the requests made: two region requests for one star that agree to two decimals, bright
\* catalogs of three limits, a cone and a frustum
Requests ==
    {RegionReq(10001000, 20000000, 5000000, 1),
     RegionReq(10004000, 20000000, 5000000, 1),
     BrightReq(1000000), BrightReq(6600000), BrightReq(7000000),
     ConeReq(266400000, -29000000, 5000000, 10000, 18000000),
     FrustumReq(0, 0, 0, 1000000, 0, 0, 50000000, 1000000000, 50000)}

\* the contents of table stars
Catalogs ==
    {<<>>,
     <<Star("s1", 0, 0, 6800000, 10, 0, 0), Star("s2", 53130102, 0, 11000000, 3, 4, 0),
       Star("s3", 0, 0, 5000000, 2000, 0, 0)>>}

\* a request of reqs arrives: the endpoint builds the cache key and calls
\* cache_service.get
RequestFrom(p, serial, reqs) ==
    /\ MayStart(p, serial)
    /\ \E r \in reqs : GetEnter(p, Enter("get", r), CacheKeyOf(r))
    /\ UNCHANGED <<enabled, dbOk, now, catalog, probe>>

Request(p, serial) == RequestFrom(p, serial, Requests)

ApiInit ==
    /\ enabled \in BOOLEAN
    /\ memory_cache = EmptyMap
    /\ db = EmptyMap
    /\ dbOk = TRUE
    /\ now = 0
    /\ task = [p \in Procs |-> IdleTask]
    /\ last = NoLast
    /\ lastSet = EmptyMap
    /\ catalog \in Catalogs
    /\ calls = 0
    /\ probe = NoProbe

ApiStep(serial) ==
    \/ \E p \in Procs : Request(p, serial)
    \/ \E p \in Procs : GetSelect(p)
    \/ \E p \in Procs : GetRow(p)
    \/ \E p \in Procs : GetDelete(p)
    \/ \E p \in Procs : ApiGot(p)
    \/ \E p \in Procs : ApiQuery(p)
    \/ \E p \in Procs : SetInsert(p)
    \/ \E p \in Procs : ApiRespond(p)
    \/ \E p \in Procs : ApiExcept(p)
    \/ Tick
    \/ Restart
    \/ DbDown
    \/ DbUp

\* requests handled one after the other
NextApi == ApiStep(TRUE)

SpecApi == ApiInit /\ [][NextApi]_vars

----------------------------------------------------------------------------
(* Properties of the endpoints *)

\* what a request returns when its query is run with its own parameters and
\* nothing is cached
Uncached(r) ==
    IF QueryService(r.kind) \in Imported
    THEN [status |-> "ok", stars |-> QueryResult(r, catalog)]
    ELSE [status |-> "error", stars |-> <<>>]

\* C8: caching never changes results: over an unchanged catalog every
\* request, with caching enabled as with caching disabled, is answered with
\* the point sequence its own query gives, so the two answers are equal.
C8_CachingTransparent ==
    last.op = "api"
    => /\ last.response.status = Uncached(last.req).status
       /\ last.response.stars = Uncached(last.req).stars

\* a request answered from the durable tier with two stars in their order
C8_Witness ==
    /\ last.op = "api"
    /\ enabled
    /\ last.response.cached
    /\ last.selected
    /\ Len(last.response.stars) = 2

\* C10: every endpoint follows the cache-aside order: the key is looked up
\* first; a value found is the response and no query is executed; otherwise
\* the query is executed and its result is in both tiers when the response
\* is returned.
C10_CacheAside ==
    last.op = "api"
    => /\ last.lookup.some
          => /\ ~last.queried
             /\ last.response = [status |-> "ok", stars |-> last.lookup.v, cached |-> TRUE]
       /\ ~last.lookup.some
          => /\ last.queried
             /\ last.response.status = "ok"
             /\ (enabled /\ ~last.err)
                => /\ last.key \in DOMAIN memory_cache
                   /\ memory_cache[last.key].value = last.response.stars
                   /\ last.key \in DOMAIN db
                   /\ db[last.key].value = JsonDumps(last.response.stars)

\* C11: the same request issued twice in a row within TTL, the first one
\* answered with success from the query: the first response has cached =
\* false, the second has cached = true and the same stars, whatever the
\* result of the query was.
C11_SecondFromCache ==
    /\ (last.op = "api" /\ last.queried) => ~last.response.cached
    /\ (/\ last.op = "api"
        /\ enabled
        /\ last.prev.req = last.req
        /\ last.prev.response.status = "ok"
        /\ ~last.prev.response.cached
        /\ Age(last.t, last.prev.t) < CACHE_TTL_SECONDS)
       => /\ last.response.cached
          /\ last.response.stars = last.prev.response.stars

\* the count limit of a request: limit of a region request, max_stars of a
\* cone and of a frustum request
CountLimit(r) ==
    CASE r.kind = "region" -> r.f[4]
      [] r.kind = "cone" -> r.f[4]
      [] r.kind = "frustum" -> r.f[9]

\* C12: the number of points in the response to a cone, frustum or region
\* request, cached or freshly computed, never exceeds the count limit given
\* in the request.
C12_CountLimit ==
    (last.op = "api" /\ last.req.kind \in {"region", "cone", "frustum"})
    => Len(last.response.stars) <= CountLimit(last.req)

\* a region request with limit 1 answered with success over a table in which
\* two stars are within 1000 pc of the origin and brighter than magnitude 12
C12_Witness ==
    /\ last.op = "api"
    /\ last.req.kind = "region"
    /\ last.response.status = "ok"
    /\ last.queried
    /\ Len(NearbyRows(catalog, 0, 0, 0, 1000, 50000, 12000000)) > CountLimit(last.req)

\* the catalog row of a star of a response
RowOf(source_id) ==
    catalog[CHOOSE i \in 1..Len(catalog) : catalog[i].source_id = source_id]

\* C14: a cone or frustum request (the galactic-centre request is a cone
\* request) that misses the cache gets a success response with cached =
\* false.
C14_UpstreamMiss ==
    (last.op = "api" /\ last.req.kind \in {"cone", "frustum"} /\ ~Truthy(last.lookup))
    => /\ last.response.status = "ok"
       /\ ~last.response.cached

----------------------------------------------------------------------------
(* Cache keys of pairs of requests *)

\* the default request of each kind, and the fields that are floats and may
\* be negative
Defaults ==
    {RegionReq(10000000, 20000000, 5000000, 100),
     BrightReq(6500000),
     ConeReq(266400000, 29000000, 5000000, 10000, 18000000),
     FrustumReq(0, 0, 0, 1000000, 0, 0, 50000000, 1000000000, 50000)}

IntegerFields(kind) ==
    CASE kind = "region" -> {4}
      [] kind = "bright" -> {}
      [] kind = "cone" -> {4}
      [] kind = "frustum" -> {9}

SignedFields(kind) ==
    CASE kind = "region" -> {2}
      [] kind = "bright" -> {}
      [] kind = "cone" -> {2}
      [] kind = "frustum" -> 1..6

\* values of field i around x: x itself, one and two millionths more, a half
\* more, and for a signed field a thousandth either side of zero
Variants(kind, i, x) ==
    IF i \in IntegerFields(kind) THEN {x, x + 1}
    ELSE {x, x + 1, x + 2, x + 500000}
         \cup (IF i \in SignedFields(kind) THEN {-1000, 1000} ELSE {})

\* pairs of requests of one kind that differ in one field at most
RequestPairs ==
    UNION {UNION {{<<[r EXCEPT !.f[i] = u], [r EXCEPT !.f[i] = v]>> :
                        u \in Variants(r.kind, i, r.f[i]),
                        v \in Variants(r.kind, i, r.f[i])} :
                  i \in 1..Len(r.f)} :
           r \in Defaults}

KeyInit ==
    /\ enabled = TRUE
    /\ memory_cache = EmptyMap
    /\ db = EmptyMap
    /\ dbOk = TRUE
    /\ now = 0
    /\ task = [p \in Procs |-> IdleTask]
    /\ last = NoLast
    /\ lastSet = EmptyMap
    /\ catalog = <<>>
    /\ calls = 0
    /\ probe \in {[fn |-> "request", a |-> pr[1], b |-> pr[2], ka |-> NoKey, kb |-> NoKey] :
                    pr \in RequestPairs}

\* the endpoints build the keys of both requests and _generate_key hashes them
CacheKeys ==
    /\ probe.fn = "request"
    /\ probe' = [probe EXCEPT !.fn = "cache_key",
                              !.ka = GenerateKey(CacheKeyOf(probe.a)),
                              !.kb = GenerateKey(CacheKeyOf(probe.b))]
    /\ UNCHANGED <<enabled, memory_cache, db, dbOk, now, task, last, lastSet, catalog, calls>>

NextKey == CacheKeys

SpecKey == KeyInit /\ [][NextKey]_vars

\* the decimals each field keeps in its key: those the endpoints round to;
\* 6 for an integer field, which is compared as it is; 4, the finest
\* precision the keys use, for the float fields the endpoints do not round
Decimals(kind) ==
    CASE kind = "region" -> <<2, 2, 2, 6>>
      [] kind = "bright" -> <<4>>
      [] kind = "cone" -> <<4, 4, 4, 6, 4>>
      [] kind = "frustum" -> <<2, 2, 2, 3, 3, 3, 1, 1, 6>>

RoundedValue(x, d) == IF x < 0 THEN -RoundAbs(x, d) ELSE RoundAbs(x, d)

AgreeAfterRounding(a, b) ==
    \A i \in 1..Len(a.f) :
        IF i \in IntegerFields(a.kind)
        THEN a.f[i] = b.f[i]
        ELSE RoundedValue(a.f[i], Decimals(a.kind)[i]) = RoundedValue(b.f[i], Decimals(a.kind)[i])

\* C9: the cache key is a function of the request's parameters with every
\* float field rounded to its precision: two requests of one kind get the
\* same key exactly when all their fields agree after rounding.
C9_KeyCanonical ==
    probe.fn = "cache_key"
    => (AgreeAfterRounding(probe.a, probe.b) <=> probe.ka = probe.kb)

----------------------------------------------------------------------------
(* The cone query of the upstream archive (services/gaia_service.py).  A    *)
(* row of gaiadr3.gaia_source: source_id, ra and dec and phot_g_mean_mag in *)
(* units of 10^-6, parallax in units of 10^-3 mas or NULL.  Distances of    *)
(* the stars built from the rows are in units of 10^-3 pc.                 *)

Null == [null |-> TRUE, v |-> 0]

Value(x) == [null |-> FALSE, v |-> x]

GaiaRow(source_id, ra, dec, parallax, phot_g_mean_mag) ==
    [source_id |-> source_id, ra |-> ra, dec |-> dec, parallax |-> parallax,
     phot_g_mean_mag |-> phot_g_mean_mag]

Smaller(a, b) == IF a < b THEN a ELSE b

Larger(a, b) == IF a > b THEN a ELSE b

\* _parallax_to_distance without its last line: the quotient unclamped
ParallaxUnclamped(parallax_mas) ==
    IF parallax_mas.null \/ parallax_mas.v <= 0
    THEN 1000000
    ELSE 1000000000 \div parallax_mas.v

\* _parallax_to_distance: 1000.0 for no parallax or one <= 0, otherwise
\* 1000.0 / parallax_mas clamped to [0.1, 100000.0]
ParallaxToDistance(parallax_mas) ==
    IF parallax_mas.null \/ parallax_mas.v <= 0
    THEN 1000000
    ELSE Larger(100, Smaller(1000000000 \div parallax_mas.v, 100000000))

\* the angular separation of two positions of one meridian, in units of
\* 10^-6 degrees; the rows and the cone centres of the model are all on the
\* meridian of right ascension 266.4
Separation(dec1, dec2) == Abs(dec1 - dec2)

\* 1=CONTAINS(POINT('ICRS', ra, dec), CIRCLE('ICRS', {ra}, {dec}, {radius_deg}))
Contains(row, ra, dec, radius_deg) == Separation(row.dec, dec) <= radius_deg

\* the star dictionary built from a row (lines 115-154)
ConeStar(row) ==
    [source_id |-> row.source_id, ra |-> row.ra, dec |-> row.dec,
     distance_pc |-> ParallaxToDistance(row.parallax),
     magnitude |-> row.phot_g_mean_mag]

QueryConeTopFirst(table, ra, dec, radius_deg, max_stars, min_magnitude) ==
    LET InCone(row) == /\ Contains(row, ra, dec, radius_deg)
                       /\ row.phot_g_mean_mag < min_magnitude
        rows == Limit(SelectSeq(table, InCone), max_stars)
        keys == [i \in 1..Len(rows) |-> <<rows[i].phot_g_mean_mag, 0>>]
        top == OrderBy(rows, keys)
    IN  [i \in 1..Len(top) |-> ConeStar(top[i])]

\* _query_cone_sync: SELECT TOP {max_stars} ... WHERE 1=CONTAINS(...) AND
\* phot_g_mean_mag < {min_magnitude} ORDER BY phot_g_mean_mag ASC
QueryConeSync(table, ra, dec, radius_deg, max_stars, min_magnitude) ==
    LET InCone(row) == /\ Contains(row, ra, dec, radius_deg)
                       /\ row.phot_g_mean_mag < min_magnitude
        rows == SelectSeq(table, InCone)
        keys == [i \in 1..Len(rows) |-> <<rows[i].phot_g_mean_mag, 0>>]
        top == Limit(OrderBy(rows, keys), max_stars)
    IN  [i \in 1..Len(top) |-> ConeStar(top[i])]

----------------------------------------------------------------------------
(* The queries run twice over one table *)

\* tables of at most MaxRows rows of S, no row twice
Tables(S) ==
    {t \in UNION {[1..n -> S] : n \in 0..MaxRows} :
        \A i, j \in DOMAIN t : i # j => t[i] # t[j]}

\* two stars at one distance and of one magnitude among the local stars
LocalStars ==
    {Star("t1", 0, 0, 6800000, 10, 0, 0), Star("t2", 90000000, 0, 6800000, 0, 10, 0),
     Star("t3", 53130102, 0, 11000000, 3, 4, 0), Star("t4", 0, 0, 5000000, 2000, 0, 0)}

\* upstream rows: the bright far star at the cone centre, a faint near one,
\* one six degrees away, one at the magnitude limit with no parallax
GaiaRows ==
    {GaiaRow("g1", 266400000, -29000000, Value(1000), 5000000),
     GaiaRow("g2", 266400000, -28000000, Value(100000), 8000000),
     GaiaRow("g3", 266400000, -23000000, Value(10000), 3000000),
     GaiaRow("g4", 266400000, -27000000, Null, 18000000)}

NewProbe(fn, args) == [fn |-> fn, args |-> args, run |-> 0, first |-> <<>>, second |-> <<>>]

LocalProbes ==
    {NewProbe("nearby", <<0, 0, 0, 1000, 50000, 12000000>>),
     NewProbe("nearby", <<0, 0, 0, 1000, 1, 12000000>>),
     NewProbe("bright", <<6600000>>),
     NewProbe("bright", <<7000000>>)}

ConeProbes ==
    {NewProbe("cone", <<266400000, -29000000, 5000000, 1, 18000000>>),
     NewProbe("cone", <<266400000, -29000000, 5000000, 10000, 18000000>>)}

QueryInit ==
    /\ enabled = TRUE
    /\ memory_cache = EmptyMap
    /\ db = EmptyMap
    /\ dbOk = TRUE
    /\ now = 0
    /\ task = [p \in Procs |-> IdleTask]
    /\ last = NoLast
    /\ lastSet = EmptyMap
    /\ calls = 0
    /\ \/ catalog \in Tables(LocalStars) /\ probe \in LocalProbes
       \/ catalog \in Tables(GaiaRows) /\ probe \in ConeProbes

\* the result of a run is kept: the first run's and the second run's
Ran(result) ==
    /\ probe.run < 2
    /\ probe' = [probe EXCEPT !.run = probe.run + 1,
                              !.first = IF probe.run = 0 THEN result ELSE probe.first,
                              !.second = IF probe.run = 1 THEN result ELSE probe.second]
    /\ UNCHANGED <<enabled, memory_cache, db, dbOk, now, task, last, lastSet, catalog, calls>>

RunNearby ==
    /\ probe.fn = "nearby"
    /\ Ran(IF QueryFails(NearbyQuery)
           THEN <<>>
           ELSE NearbyRows(catalog, probe.args[1], probe.args[2], probe.args[3], probe.args[4],
                           probe.args[5], probe.args[6]))

RunBright ==
    /\ probe.fn = "bright"
    /\ Ran(IF QueryFails(BrightQuery) THEN <<>> ELSE AllBrightRows(catalog, probe.args[1]))

RunCone ==
    /\ probe.fn = "cone"
    /\ Ran(QueryConeSync(catalog, probe.args[1], probe.args[2], probe.args[3],
                         probe.args[4], probe.args[5]))

NextQuery == RunNearby \/ RunBright \/ RunCone

SpecQuery == QueryInit /\ [][NextQuery]_vars

DistanceOf(point) ==
    IF probe.fn = "cone" THEN point.distance_pc ELSE DistanceSq(point, 0, 0, 0)

\* C19: in every Region result and every Cone result, each adjacent pair
\* (p1, p2) has distance(p1) < distance(p2), or distance(p1) = distance(p2)
\* and magnitude(p1) <= magnitude(p2).
C19_OrderedByDistance ==
    (probe.fn \in {"nearby", "cone"} /\ probe.run >= 1)
    => \A i \in 1..(Len(probe.first) - 1) :
          \/ DistanceOf(probe.first[i]) < DistanceOf(probe.first[i + 1])
          \/ /\ DistanceOf(probe.first[i]) = DistanceOf(probe.first[i + 1])
             /\ probe.first[i].magnitude <= probe.first[i + 1].magnitude

\* the rows of the table in the cone and brighter than the limit
Eligible ==
    {i \in 1..Len(catalog) :
        /\ Separation(catalog[i].dec, probe.args[2]) <= probe.args[3]
        /\ catalog[i].phot_g_mean_mag < probe.args[5]}

\* C20: the result of a cone query is, in non-decreasing magnitude order,
\* the first maxCount of the catalog points within radius degrees of
\* (ra, dec) with magnitude strictly below faintLimit; a point at the cone
\* centre that is the brightest in the cone is returned first.
C20_ConeBrightestFirst ==
    (probe.fn = "cone" /\ probe.run >= 1)
    => LET r == probe.first
           ids == {r[i].source_id : i \in 1..Len(r)}
       IN  /\ \A i \in 1..Len(r) :
                \E j \in Eligible : /\ catalog[j].source_id = r[i].source_id
                                    /\ catalog[j].phot_g_mean_mag = r[i].magnitude
           /\ Cardinality(ids) = Len(r)
           /\ \A i \in 1..(Len(r) - 1) : r[i].magnitude <= r[i + 1].magnitude
           /\ Len(r) = Smaller(probe.args[4], Cardinality(Eligible))
           /\ \A j \in Eligible :
                catalog[j].source_id \notin ids
                => \A i \in 1..Len(r) : r[i].magnitude <= catalog[j].phot_g_mean_mag
           /\ \A j \in Eligible :
                (/\ catalog[j].dec = probe.args[2]
                 /\ \A k \in Eligible \ {j} :
                        catalog[j].phot_g_mean_mag < catalog[k].phot_g_mean_mag)
                => /\ Len(r) >= 1
                   /\ r[1].source_id = catalog[j].source_id

\* a cone query capped at one star of two in the cone, the star at the centre
\* returned although the table holds it after the other
C20_Witness ==
    /\ probe.fn = "cone"
    /\ probe.run >= 1
    /\ Len(probe.first) = 1
    /\ Cardinality(Eligible) = 2
    /\ probe.first[1].source_id = "g1"
    /\ \E j, k \in Eligible : k < j /\ catalog[j].source_id = "g1"

----------------------------------------------------------------------------
(* The upstream fetcher: query_cone_async under @retry, called while the
   endpoints serve requests *)

\* stop=stop_after_attempt(3)
StopAfterAttempt == 3

ShouldStopLate(attempt_number) == attempt_number > StopAfterAttempt

\* stop_after_attempt: no attempt follows the one numbered StopAfterAttempt
ShouldStop(attempt_number) == attempt_number >= StopAfterAttempt

\* the rows of gaiadr3.gaia_source the archive holds
Archive ==
    <<GaiaRow("g2", 266400000, -28000000, Value(100000), 8000000),
      GaiaRow("g1", 266400000, -29000000, Value(1000), 5000000)>>

\* what one attempt ends with: the stars _query_cone_sync returns, or the
\* exception it re-raises, told apart by the attempt that raised it
Returned(stars) == [kind |-> "ok", stars |-> stars, attempt |-> 0]
Raised(attempt_number) == [kind |-> "error", stars |-> <<>>, attempt |-> attempt_number]

\* no call of query_cone_async made yet
FetchIdle ==
    [fn |-> "query_cone_async",
     args |-> <<266400000, -29000000, 5000000, 10000, 18000000>>,
     pc |-> "idle", attempt_number |-> 0, history |-> <<>>,
     outcome |-> Returned(<<>>), since |-> 0]

\* query_cone_async is called: the first attempt hands _query_cone_sync to
\* the executor and awaits it; since is the number of requests begun so far
FetchCall ==
    /\ probe.pc = "idle"
    /\ probe' = [probe EXCEPT !.pc = "attempt", !.attempt_number = 1, !.since = calls]
    /\ UNCHANGED <<enabled, memory_cache, db, dbOk, now, task, last, lastSet, catalog, calls>>

\* the archive answers the attempt awaited: job.get_results() returns the
\* table, or launch_job_async or get_results raises
UpstreamAnswers ==
    /\ probe.pc = "attempt"
    /\ \E o \in {Returned(QueryConeSync(Archive, probe.args[1], probe.args[2], probe.args[3],
                                        probe.args[4], probe.args[5])),
                 Raised(probe.attempt_number)} :
            probe' = [probe EXCEPT !.pc = "answered", !.history = Append(@, o)]
    /\ UNCHANGED <<enabled, memory_cache, db, dbOk, now, task, last, lastSet, catalog, calls>>

\* the retry loop after an attempt: the result is returned; or the attempt
\* raised, and either the stop is reached and reraise=True raises the last
\* attempt's exception, or the loop sleeps wait_exponential
AfterAttempt ==
    /\ probe.pc = "answered"
    /\ LET o == probe.history[Len(probe.history)]
       IN  probe' = IF o.kind = "ok"
                    THEN [probe EXCEPT !.pc = "returned", !.outcome = o]
                    ELSE IF ShouldStop(probe.attempt_number)
                         THEN [probe EXCEPT !.pc = "raised", !.outcome = o]
                         ELSE [probe EXCEPT !.pc = "backoff"]
    /\ UNCHANGED <<enabled, memory_cache, db, dbOk, now, task, last, lastSet, catalog, calls>>

\* the sleep is over: the next attempt hands _query_cone_sync to the executor
BackoffElapsed ==
    /\ probe.pc = "backoff"
    /\ probe' = [probe EXCEPT !.pc = "attempt", !.attempt_number = @ + 1]
    /\ UNCHANGED <<enabled, memory_cache, db, dbOk, now, task, last, lastSet, catalog, calls>>

\* the steps of the retry loop itself
FetchStep == FetchCall \/ AfterAttempt \/ BackoffElapsed

\* the requests served meanwhile
FetchRequests == {BrightReq(6600000), ConeReq(266400000, -29000000, 5000000, 10000, 18000000)}

FetchInit ==
    /\ enabled = TRUE
    /\ memory_cache = EmptyMap
    /\ db = EmptyMap
    /\ dbOk = TRUE
    /\ now = 0
    /\ task = [p \in Procs |-> IdleTask]
    /\ last = NoLast
    /\ lastSet = EmptyMap
    /\ catalog \in Catalogs \ {<<>>}
    /\ calls = 0
    /\ probe = FetchIdle

\* one step of the endpoint run by coroutine p
Serve(p) ==
    \/ RequestFrom(p, FALSE, FetchRequests)
    \/ GetSelect(p)
    \/ GetRow(p)
    \/ ApiGot(p)
    \/ ApiQuery(p)
    \/ SetInsert(p)
    \/ ApiRespond(p)
    \/ ApiExcept(p)

NextFetch ==
    \/ \E p \in Procs : Serve(p)
    \/ FetchStep
    \/ UpstreamAnswers

SpecFetch == FetchInit /\ [][NextFetch]_vars

\* C15: one call of the upstream cone fetcher makes at most 3 attempts; it
\* returns the result of the first attempt that succeeds and makes no attempt
\* after it; when all 3 attempts fail it raises the error of the last one;
\* and the cone endpoint answers with a failure, never with a success.
C15_AtMostThreeAttempts ==
    LET h == probe.history
        n == Len(h)
    IN  /\ n <= 3
        /\ probe.attempt_number <= 3
        /\ probe.pc = "returned"
           => /\ n >= 1
              /\ h[n].kind = "ok"
              /\ \A i \in 1..(n - 1) : h[i].kind = "error"
              /\ probe.outcome = h[n]
              /\ probe.outcome.stars = QueryConeSync(Archive, probe.args[1], probe.args[2],
                                                     probe.args[3], probe.args[4], probe.args[5])
              /\ ~ ENABLED (FetchStep \/ UpstreamAnswers)
        /\ probe.pc = "raised"
           => /\ n = 3
              /\ \A i \in 1..n : h[i] = Raised(i)
              /\ probe.outcome = Raised(3)
              /\ ~ ENABLED (FetchStep \/ UpstreamAnswers)
        /\ (last.op = "api" /\ last.req.kind = "cone") => last.response.status = "error"

\* three attempts have failed and the third error is raised, and a cone
\* request has been answered
C15_Witness ==
    /\ probe.pc = "raised"
    /\ Len(probe.history) = 3
    /\ probe.outcome = Raised(3)
    /\ last.op = "api"
    /\ last.req.kind = "cone"

\* the fetcher beside one coroutine serving requests
NextFetchOne ==
    \/ Serve("p1")
    \/ FetchStep
    \/ UpstreamAnswers

\* the event loop runs every coroutine that can go on and the executor every
\* function handed to it: the retry loop resumes after an attempt and after
\* a sleep, and the endpoint takes its steps. Nothing makes the archive
\* answer: launch_job_async and get_results are awaited without a timeout
\* (GAIA_TIMEOUT_SECONDS is read nowhere).
SpecFetchFair ==
    /\ FetchInit
    /\ [][NextFetchOne]_vars
    /\ WF_vars(AfterAttempt \/ BackoffElapsed)
    /\ WF_vars(GetSelect("p1") \/ GetRow("p1") \/ ApiGot("p1") \/ ApiQuery("p1")
                  \/ SetInsert("p1") \/ ApiRespond("p1") \/ ApiExcept("p1"))

\* C16: every call of the upstream fetcher eventually returns or raises,
\* also when the archive never answers an attempt.
C16_FetchTerminates == (probe.pc = "attempt") ~> (probe.pc \in {"returned", "raised"})

\* coroutine p awaits the local catalog query it handed to the executor
AwaitsCatalog(p) == task[p].pc = "api_query"

\* the fetcher awaits an attempt handed to the executor, or sleeps between
\* two attempts
AwaitsUpstream == probe.pc \in {"attempt", "backoff"}

----------------------------------------------------------------------------
(* The endpoints over a catalog file that may be missing or unreadable *)

\* the catalog file: not there; there but not a database SQLite can read
\* table stars of; there and readable
Stores ==
    {[fn |-> "store", exists |-> FALSE, readable |-> FALSE],
     [fn |-> "store", exists |-> TRUE, readable |-> FALSE],
     [fn |-> "store", exists |-> TRUE, readable |-> TRUE]}

\* a region around no star of the table, a region around its stars at
\* (0, 0), a bright catalog and a cone
StoreRequests ==
    {RegionReq(10001000, 20000000, 5000000, 1), RegionReq(0, 0, 5000000, 1),
     BrightReq(7000000), ConeReq(266400000, -29000000, 5000000, 10000, 18000000)}

StoreInit ==
    /\ enabled \in BOOLEAN
    /\ memory_cache = EmptyMap
    /\ db = EmptyMap
    /\ dbOk \in BOOLEAN
    /\ now = 0
    /\ task = [p \in Procs |-> IdleTask]
    /\ last = NoLast
    /\ lastSet = EmptyMap
    /\ catalog \in Catalogs
    /\ calls = 0
    /\ probe \in Stores

\* requests handled one after the other
NextStore ==
    \/ \E p \in Procs : RequestFrom(p, TRUE, StoreRequests)
    \/ \E p \in Procs : GetSelect(p)
    \/ \E p \in Procs : GetRow(p)
    \/ \E p \in Procs : ApiGot(p)
    \/ \E p \in Procs : ApiQuery(p)
    \/ \E p \in Procs : SetInsert(p)
    \/ \E p \in Procs : ApiRespond(p)
    \/ \E p \in Procs : ApiExcept(p)

SpecStore == StoreInit /\ [][NextStore]_vars

\* C22: when the catalog file is missing or the catalog query raises, a
\* region or bright-catalog request that runs the query is answered with
\* success and no star, not with an error.
C22_EmptyNotError ==
    (/\ last.op = "api"
     /\ last.req.kind \in {"region", "bright"}
     /\ last.queried
     /\ ~CatalogExists \/ QueryFails(QueryOf(last.req)))
    => /\ last.response.status = "ok"
       /\ last.response.stars = <<>>

\* a bright-catalog request answered over a file that is there and cannot be
\* read, the table of the model holding stars the query would return
C22_Witness ==
    /\ last.op = "api"
    /\ last.req.kind = "bright"
    /\ last.queried
    /\ probe.exists
    /\ ~probe.readable
    /\ Len(AllBrightRows(catalog, last.req.f[1])) > 0
    /\ last.response.status = "ok"

\* whether a row of the table lies within radius degrees of (ra, dec), for
\* the rows and regions here: a row at (ra, dec) itself does; a row whose
\* declination differs from dec by more than radius does not; of two points
\* on the equator the separation is the difference of right ascension
InRegion(row, r) ==
    \/ (row.ra = r.f[1] /\ row.dec = r.f[2])
    \/ /\ Abs(row.dec - r.f[2]) <= r.f[3]
       /\ row.dec = 0
       /\ r.f[2] = 0
       /\ Abs(row.ra - r.f[1]) <= r.f[3]

\* the stars of the table in the region of a request
StarsIn(r) == {catalog[i].source_id : i \in {k \in 1..Len(catalog) : InRegion(catalog[k], r)}}

\* C13: every star in the response to a region request (ra, dec, radius,
\* limit) lies within radius degrees of (ra, dec), and a request for another
\* region, one that holds other stars of the catalog, gets another result.
C13_RegionOnly ==
    (last.op = "api" /\ last.req.kind = "region" /\ CatalogExists /\ CatalogReadable)
    => /\ \A i \in 1..Len(last.response.stars) :
            InRegion(RowOf(last.response.stars[i]), last.req)
       /\ \A r \in StoreRequests :
            (r.kind = "region" /\ StarsIn(r) # StarsIn(last.req))
            => Uncached(r).stars # last.response.stars

----------------------------------------------------------------------------
(* Coordinate mathematics (services/gaia_service.py) in floating point.     *)
(* A float is written (n / q) * eps^o * 10^e: n / q a ratio of small        *)
(* integers, eps the rounding residue left where a sine or cosine is zero   *)
(* in exact arithmetic (cos(radians(90.0)) is 6.1e-17, not 0).  Angles are  *)
(* degrees in units of 10^-6, taken from the 3-4-5 triangle and the axes,   *)
(* where sines and cosines are ratios of integers.                          *)

Float(n, q, o, e) == [n |-> n, q |-> q, o |-> o, e |-> e]

Zero == Float(0, 1, 0, 0)

\* the decimal exponents of the smallest and of the largest float, and of eps
MinExp == -324

MaxExp == 308

EpsExp == 16

\* the decimal order of magnitude of a float that is not zero
Exponent(a) == a.e - EpsExp * a.o

\* a result too small for a float is 0.0
Underflow(a) == IF a.n = 0 \/ Exponent(a) < MinExp THEN Zero ELSE a

\* a result too large for a float
Overflows(a) == a.n # 0 /\ Exponent(a) > MaxExp

Mul(a, b) == Underflow(Float(a.n * b.n, a.q * b.q, a.o + b.o, a.e + b.e))

\* a + b: the smaller of two terms of different magnitude is lost in rounding
\* (they differ by a factor eps at least); terms of one magnitude add exactly
Add(a, b) ==
    IF a.n = 0 THEN b
    ELSE IF b.n = 0 THEN a
    ELSE IF Exponent(a) > Exponent(b) THEN a
    ELSE IF Exponent(a) < Exponent(b) THEN b
    ELSE LET q == IF a.q > b.q THEN a.q ELSE b.q
         IN  Float(a.n * (q \div a.q) + b.n * (q \div b.q), q, a.o, a.e)

\* the integer square root
Isqrt(n) == CHOOSE r \in 0..n : r * r <= n /\ n < (r + 1) * (r + 1)

\* np.sqrt of a sum of squares
Sqrt(a) == IF a.n = 0 THEN Zero ELSE Float(Isqrt(a.n), Isqrt(a.q), a.o \div 2, a.e \div 2)

Sign(n) == IF n < 0 THEN -1 ELSE IF n > 0 THEN 1 ELSE 0

\* np.cos(np.radians(deg)) and np.sin(np.radians(deg)) at the angles used
Cos(deg) ==
    CASE deg = 0 -> Float(5, 5, 0, 0)
      [] deg \in {36869898, -36869898, 323130102} -> Float(4, 5, 0, 0)
      [] deg \in {53130102, -53130102} -> Float(3, 5, 0, 0)
      [] deg \in {90000000, -90000000} -> Float(5, 5, 1, 0)
      [] deg = 180000000 -> Float(-5, 5, 0, 0)
      [] deg = 270000000 -> Float(-15, 5, 1, 0)

Sin(deg) ==
    CASE deg = 0 -> Zero
      [] deg = 36869898 -> Float(3, 5, 0, 0)
      [] deg \in {-36869898, 323130102} -> Float(-3, 5, 0, 0)
      [] deg = 53130102 -> Float(4, 5, 0, 0)
      [] deg = -53130102 -> Float(-4, 5, 0, 0)
      [] deg = 90000000 -> Float(5, 5, 0, 0)
      [] deg \in {-90000000, 270000000} -> Float(-5, 5, 0, 0)
      [] deg = 180000000 -> Float(10, 5, 1, 0)

\* np.degrees(np.arctan(t)) for 0 <= t = num / den <= infinity
ArctanDeg(num, den) ==
    CASE num = 0 -> 0
      [] den = 0 -> 90000000
      [] 4 * num = 3 * den -> 36869898
      [] 3 * num = 4 * den -> 53130102
      [] num = den -> 45000000

\* np.degrees(np.arctan2(y, x)): where one of y, x is smaller by a factor
\* eps the angle is that of the axis of the other
Arctan2Deg(y, x) ==
    LET yd == y.n # 0 /\ (x.n = 0 \/ Exponent(y) > Exponent(x))
        xd == x.n # 0 /\ (y.n = 0 \/ Exponent(x) > Exponent(y))
        a == ArctanDeg(Abs(y.n) * x.q, Abs(x.n) * y.q)
    IN  CASE y.n = 0 /\ x.n = 0 -> 0
          [] yd -> Sign(y.n) * 90000000
          [] xd -> IF x.n > 0 THEN 0 ELSE 180000000
          [] OTHER -> CASE x.n > 0 /\ y.n > 0 -> a
                        [] x.n > 0 /\ y.n < 0 -> -a
                        [] x.n < 0 /\ y.n > 0 -> 180000000 - a
                        [] x.n < 0 /\ y.n < 0 -> a - 180000000

\* np.degrees(np.arcsin(z / distance)) for |z| <= distance, distance not 0
ArcsinDeg(z, distance) ==
    LET num == Abs(z.n) * distance.q
        den == distance.n * z.q
    IN  CASE z.n = 0 \/ Exponent(z) < Exponent(distance) -> 0
          [] num = den -> Sign(z.n) * 90000000
          [] 5 * num = 3 * den -> Sign(z.n) * 36869898
          [] 5 * num = 4 * den -> Sign(z.n) * 53130102

\* _equatorial_to_cartesian: x to RA 0 / DEC 0, y to RA 90, z to DEC 90
EquatorialToCartesian(ra_deg, dec_deg, distance_pc) ==
    [raised |-> "none",
     x |-> Mul(Mul(distance_pc, Cos(dec_deg)), Cos(ra_deg)),
     y |-> Mul(Mul(distance_pc, Cos(dec_deg)), Sin(ra_deg)),
     z |-> Mul(distance_pc, Sin(dec_deg))]

\* download_bright_catalog: the x, y, z columns of table stars
CatalogCartesian(ra_deg, dec_deg, distance_pc) ==
    [raised |-> "none",
     x |-> Mul(Mul(distance_pc, Cos(dec_deg)), Cos(ra_deg)),
     y |-> Mul(distance_pc, Sin(dec_deg)),
     z |-> Mul(Mul(distance_pc, Cos(dec_deg)), Sin(ra_deg))]

\* x**2 of a Python float: OverflowError when the square is too large
Square(a) == Float(a.n * a.n, a.q * a.q, 2 * a.o, 2 * a.e)

KeepsNegative(ra_deg) == ra_deg

\* if ra_deg < 0: ra_deg += 360.0
Wrap(ra_deg) == IF ra_deg < 0 THEN ra_deg + 360000000 ELSE ra_deg

\* _cartesian_to_equatorial. float64 says that the arguments are numpy.float64
\* (what _equatorial_to_cartesian returns), whose square overflows to inf,
\* so that z / distance is 0.0; the square of a Python float (a field of a
\* request) raises OverflowError instead
CartesianToEquatorial(x, y, z, float64) ==
    IF Overflows(Square(x)) \/ Overflows(Square(y)) \/ Overflows(Square(z))
    THEN IF float64
         THEN [raised |-> "none", ra |-> Wrap(Arctan2Deg(y, x)), dec |-> 0]
         ELSE [raised |-> "OverflowError", ra |-> 0, dec |-> 0]
    ELSE LET distance == Sqrt(Add(Add(Underflow(Square(x)), Underflow(Square(y))),
                                  Underflow(Square(z))))
         IN  IF distance.n = 0
             THEN [raised |-> "none", ra |-> 0, dec |-> 0]
             ELSE [raised |-> "none", ra |-> Wrap(Arctan2Deg(y, x)),
                   dec |-> ArcsinDeg(z, distance)]

\* np.log10(max_distance / 100.0) in units of 10^-6, max_distance a power of ten
Log10Ratio(max_distance) ==
    CASE max_distance = 1 -> -2000000
      [] max_distance = 100 -> 0
      [] max_distance = 1000 -> 1000000
      [] max_distance = 10000000 -> 5000000
      [] max_distance = 100000000 -> 6000000

WholeFov(fov_deg) == fov_deg

\* radius_deg = fov_deg * 0.75
ConeRadius(fov_deg) == (fov_deg * 3) \div 4

\* query_frustum_async: the arguments of the call of query_cone_async, or
\* the exception of _cartesian_to_equatorial
QueryFrustum(camera_direction, fov_deg, max_distance, max_stars) ==
    LET eq == CartesianToEquatorial(Float(camera_direction[1], 1, 0, 0),
                                    Float(camera_direction[2], 1, 0, 0),
                                    Float(camera_direction[3], 1, 0, 0), FALSE)
    IN  [raised |-> eq.raised, ra |-> eq.ra, dec |-> eq.dec,
         radius_deg |-> ConeRadius(fov_deg), max_stars |-> max_stars,
         min_magnitude |-> Smaller(20000000, 15000000 + Log10Ratio(max_distance))]

\* colours in units of 1/9000, colour indices in units of 10^-3

Unclamped(bp_rp) == 2 * (bp_rp + 500)

\* normalized = max(0.0, min(1.0, (bp_rp + 0.5) / 4.5))
Normalized(bp_rp) == Larger(0, Smaller(9000, 2 * (bp_rp + 500)))

\* GaiaService._bp_rp_to_rgb: four bands, linear in each
GaiaRgb(bp_rp) ==
    LET normalized == Normalized(bp_rp)
    IN  IF normalized < 1800
        THEN <<5400 + normalized * 2, 6300 + (normalized * 3) \div 2, 9000>>
        ELSE IF normalized < 4500
        THEN <<9000, 9000, 9000 - (normalized - 1800) * 2>>
        ELSE IF normalized < 6300
        THEN <<9000, 9000 - ((normalized - 4500) * 3) \div 2, 3600>>
        ELSE <<9000, 5400 - (normalized - 6300), 2700>>

\* LocalCatalogService._bp_rp_to_rgb: six steps
LocalRgb(bp_rp) ==
    LET clamped == Larger(-500, Smaller(4000, bp_rp))
    IN  IF clamped < 0 THEN <<5400, 6300, 9000>>
        ELSE IF clamped < 500 THEN <<7200, 8100, 9000>>
        ELSE IF clamped < 1000 THEN <<9000, 9000, 9000>>
        ELSE IF clamped < 1500 THEN <<9000, 8550, 6300>>
        ELSE IF clamped < 2500 THEN <<9000, 7200, 4500>>
        ELSE <<9000, 5400, 3600>>

----------------------------------------------------------------------------
(* The galactic-centre endpoint (routes/stars_api.py); angles and magnitudes *)
(* in units of 10^-6                                                        *)

\* the Query(...) constraints of query_galactic_center: radius ge=0.1 le=20.0,
\* max_stars ge=100 le=100000
GalacticQueryValid(radius, max_stars) ==
    /\ radius >= 100000 /\ radius <= 20000000
    /\ max_stars >= 100 /\ max_stars <= 100000

\* the Field(...) constraints of ConeQueryParams
ConeParamsValid(ra, dec, radius, max_stars, min_magnitude) ==
    /\ ra >= 0 /\ ra <= 360000000
    /\ dec >= -90000000 /\ dec <= 90000000
    /\ radius > 0 /\ radius <= 10000000
    /\ max_stars >= 1 /\ max_stars <= 100000
    /\ min_magnitude >= 0 /\ min_magnitude <= 25000000

\* query_galactic_center: the request is refused by FastAPI (422), or the
\* construction of ConeQueryParams raises ValidationError in the handler, or
\* query_cone is called with the parameters built
QueryGalacticCenter(radius, max_stars) ==
    IF ~GalacticQueryValid(radius, max_stars)
    THEN [raised |-> "RequestValidationError", cone |-> NoReq]
    ELSE IF ~ConeParamsValid(266400000, -29000000, radius, max_stars, 18000000)
    THEN [raised |-> "ValidationError", cone |-> NoReq]
    ELSE [raised |-> "none",
          cone |-> ConeReq(266400000, -29000000, radius, max_stars, 18000000)]

----------------------------------------------------------------------------
(* The functions applied to inputs *)

RaGrid == {0, 36869898, 53130102, 90000000, 180000000, 270000000, 323130102}

DecGrid == {-90000000, -36869898, 0, 53130102, 90000000}

\* distances 10^e pc and their negatives
Distances == {Float(n, 1, 0, e) : n \in {-1, 1}, e \in {-200, 0, 3, 200}}

Directions ==
    {<<1, 0, 0>>, <<0, 1, 0>>, <<0, 0, 1>>, <<-1, 0, 0>>, <<0, -1, 0>>, <<0, 0, -1>>,
     <<3, 4, 0>>, <<4, 0, 3>>, <<0, 3, 4>>, <<4, -3, 0>>, <<0, 0, 0>>}

Parallaxes == {Null} \cup {Value(v) : v \in {-1000, 0, 1, 10, 1000, 100000, 10000000, 20000000}}

ColourIndices == {-5000, -500, -100, 0, 400, 499, 500, 1000, 1400, 1750, 2650, 3000, 4000, 100000}

MathProbes ==
    {[fn |-> "frustum", args |-> <<d, fov, max_distance, max_stars>>, done |-> FALSE] :
        d \in Directions, fov \in {50000000, 90000000}, max_distance \in {1, 1000, 10000000},
        max_stars \in {1, 50000}}
    \cup {[fn |-> "project", args |-> <<ra, dec, d>>, done |-> FALSE] :
            ra \in RaGrid, dec \in DecGrid, d \in Distances}
    \cup {[fn |-> "parallax", args |-> <<parallax>>, done |-> FALSE] : parallax \in Parallaxes}
    \cup {[fn |-> "colour", args |-> <<bp_rp>>, done |-> FALSE] : bp_rp \in ColourIndices}
    \cup {[fn |-> "galactic", args |-> <<radius, max_stars>>, done |-> FALSE] :
            radius \in {50000, 100000, 2000000, 5000000, 10000000, 10000001, 15000000,
                        20000000, 20000001},
            max_stars \in {99, 100, 5000, 50000, 100000, 100001}}

MathInit ==
    /\ enabled = TRUE
    /\ memory_cache = EmptyMap
    /\ db = EmptyMap
    /\ dbOk = TRUE
    /\ now = 0
    /\ task = [p \in Procs |-> IdleTask]
    /\ last = NoLast
    /\ lastSet = EmptyMap
    /\ catalog = <<>>
    /\ calls = 0
    /\ probe \in MathProbes

\* the function of the probe has been applied and its result is out
Applied(fn, out) ==
    /\ probe.fn = fn
    /\ ~probe.done
    /\ probe' = [fn |-> fn, args |-> probe.args, done |-> TRUE, out |-> out]
    /\ UNCHANGED <<enabled, memory_cache, db, dbOk, now, task, last, lastSet, catalog, calls>>

RunFrustum ==
    /\ probe.fn = "frustum"
    /\ Applied("frustum", QueryFrustum(probe.args[1], probe.args[2], probe.args[3], probe.args[4]))

\* the row conversion, the catalog build and the conversion back
RunProject ==
    /\ probe.fn = "project"
    /\ LET cart == EquatorialToCartesian(probe.args[1], probe.args[2], probe.args[3])
       IN  Applied("project",
                   [cart |-> cart,
                    built |-> CatalogCartesian(probe.args[1], probe.args[2], probe.args[3]),
                    back |-> CartesianToEquatorial(cart.x, cart.y, cart.z, TRUE)])

RunParallax ==
    /\ probe.fn = "parallax"
    /\ Applied("parallax", ParallaxToDistance(probe.args[1]))

RunColour ==
    /\ probe.fn = "colour"
    /\ Applied("colour", [gaia |-> GaiaRgb(probe.args[1]), local |-> LocalRgb(probe.args[1])])

RunGalactic ==
    /\ probe.fn = "galactic"
    /\ Applied("galactic", QueryGalacticCenter(probe.args[1], probe.args[2]))

NextMath == RunFrustum \/ RunProject \/ RunParallax \/ RunColour \/ RunGalactic

SpecMath == MathInit /\ [][NextMath]_vars

\* a float equal to the integer k up to rounding
Near(a, k) ==
    IF k = 0 THEN a.n = 0 \/ a.o > 0
    ELSE a.o = 0 /\ a.e = 0 /\ a.n = k * a.q

\* C21: a frustum query calls the cone query with the pointing (ra, dec) of
\* its direction (the point of the sphere the direction goes through), with
\* radius 0.75 * fov and with max_stars unchanged; direction (1, 0, 0) with
\* fov 50 gives ra 0, dec 0 and radius 37.5.
C21_FrustumAsCone ==
    (probe.fn = "frustum" /\ probe.done)
    => LET direction == probe.args[1]
           norm == Isqrt(direction[1] * direction[1] + direction[2] * direction[2]
                         + direction[3] * direction[3])
           point == EquatorialToCartesian(probe.out.ra, probe.out.dec, Float(norm, 1, 0, 0))
       IN  /\ probe.out.raised = "none"
           /\ norm > 0 => /\ Near(point.x, direction[1])
                          /\ Near(point.y, direction[2])
                          /\ Near(point.z, direction[3])
           /\ 0 <= probe.out.ra /\ probe.out.ra < 360000000
           /\ 4 * probe.out.radius_deg = 3 * probe.args[2]
           /\ probe.out.max_stars = probe.args[4]
           /\ (direction = <<1, 0, 0>> /\ probe.args[2] = 50000000)
              => /\ probe.out.ra = 0
                 /\ probe.out.dec = 0
                 /\ probe.out.radius_deg = 37500000

\* the frustum in direction (4, -3, 0) with fov 50: beyond ra 270, radius 37.5
C21_Witness ==
    /\ probe.fn = "frustum"
    /\ probe.done
    /\ probe.args[1] = <<4, -3, 0>>
    /\ probe.args[2] = 50000000
    /\ probe.out.ra = 323130102
    /\ probe.out.radius_deg = 37500000

\* C23: the Cartesian coordinates of a point come from its (ra, dec,
\* distance) by one projection, in the catalog build as in the conversion of
\* upstream rows: the same axis carries distance * sin(dec).
C23_OneProjection ==
    (probe.fn = "project" /\ probe.done)
    => /\ probe.out.built.x = probe.out.cart.x
       /\ probe.out.built.y = probe.out.cart.y
       /\ probe.out.built.z = probe.out.cart.z

\* C24: _equatorial_to_cartesian fails with InvalidInput for every negative
\* distance.
C24_RejectsNegative ==
    (probe.fn = "project" /\ probe.done /\ probe.args[3].n < 0)
    => probe.out.cart.raised = "InvalidInput"

\* C27: converting (ra, dec, d) to Cartesian coordinates and back gives
\* (ra, dec) again, for every d > 0, ra in [0, 360) and dec in [-90, 90].
C27_RoundTrip ==
    (probe.fn = "project" /\ probe.done /\ probe.args[3].n > 0)
    => /\ probe.out.back.raised = "none"
       /\ probe.out.back.ra = probe.args[1]
       /\ probe.out.back.dec = probe.args[2]

\* C25: _parallax_to_distance returns a distance in [0.1, 100000] pc: 1000
\* for no parallax or one that is not positive, otherwise 1000 / parallax,
\* raised to 0.1 when smaller and lowered to 100000 when larger.
C25_DistanceClamped ==
    (probe.fn = "parallax" /\ probe.done)
    => LET parallax == probe.args[1]
           far  == ~parallax.null /\ parallax.v > 0 /\ parallax.v < 10
           near == ~parallax.null /\ parallax.v > 10000000
       IN  /\ probe.out >= 100 /\ probe.out <= 100000000
           /\ (parallax.null \/ parallax.v <= 0) => probe.out = 1000000
           /\ far => probe.out = 100000000
           /\ near => probe.out = 100
           /\ (~parallax.null /\ parallax.v > 0 /\ ~far /\ ~near)
                => probe.out * parallax.v = 1000000000

\* a parallax of 0.001 mas, whose quotient 10^6 pc is lowered to 100000 pc
C25_Witness ==
    /\ probe.fn = "parallax" /\ probe.done
    /\ probe.args[1] = Value(1)
    /\ probe.out = 100000000

\* C26: both colour mappings return three components in [0, 1] for every
\* colour index, inside or outside [-0.5, 4.0], and never fail.
C26_ColourInUnitRange ==
    (probe.fn = "colour" /\ probe.done)
    => /\ Len(probe.out.gaia) = 3 /\ Len(probe.out.local) = 3
       /\ \A i \in 1..3 : /\ probe.out.gaia[i] >= 0 /\ probe.out.gaia[i] <= 9000
                          /\ probe.out.local[i] >= 0 /\ probe.out.local[i] <= 9000

\* a colour index of 100, far above 4.0, mapped to the reddest colour of both
C26_Witness ==
    /\ probe.fn = "colour" /\ probe.done
    /\ probe.args[1] = 100000
    /\ probe.out.gaia = <<9000, 2700, 2700>>
    /\ probe.out.local = <<9000, 5400, 3600>>

----------------------------------------------------------------------------
(* The cache service: stats, and calls that overlap *)

\* C28: stats() changes nothing: when it has returned, both tiers and the
\* enabled flag are as it found them, and what it reports is that flag, the
\* TTL and the number of entries of the volatile and of the durable tier.
C28_StatsReadOnly ==
    (last.op = "stats" /\ ~last.err)
    => /\ memory_cache = last.preMem
       /\ db = last.preDb
       /\ last.stats.enabled = enabled
       /\ last.stats.ttl_seconds = CACHE_TTL_SECONDS
       /\ last.stats.memory_entries = Cardinality(DOMAIN last.preMem)
       /\ last.stats.db_entries = Cardinality(DOMAIN last.preDb)

\* stats() returned over an expired entry held by both tiers
C28_Witness ==
    /\ last.op = "stats" /\ ~last.err
    /\ last.stats.enabled
    /\ last.stats.memory_entries = 1
    /\ last.stats.db_entries = 1
    /\ \E k \in DOMAIN memory_cache : OlderThanCutoff(last.t, memory_cache[k].timestamp)

\* gets, sets and sweeps overlapping at their awaits, the clock advancing
\* between them; no restart, no fault of the durable tier, no clear_all
NextSweep ==
    \/ \E p \in Procs : Get(p, FALSE)
    \/ \E p \in Procs : GetSelect(p)
    \/ \E p \in Procs : GetRow(p)
    \/ \E p \in Procs : GetDelete(p)
    \/ \E p \in Procs : Set(p, FALSE)
    \/ \E p \in Procs : SetInsert(p)
    \/ \E p \in Procs : ClearExpired(p, FALSE)
    \/ \E p \in Procs : SweepDelete(p)
    \/ Tick

SpecSweep == CacheInit /\ [][NextSweep]_vars

\* coroutine p runs the first half of clear_expired in this step
SweepsMemory(p) ==
    task[p].pc = "idle" /\ task'[p].pc = "sweep_delete"

\* coroutine p runs the second half of clear_expired in this step
SweepsDurable(p) ==
    task[p].pc = "sweep_delete" /\ task'[p].pc = "idle"

\* the entry of k in tier d, if any, is younger than the TTL
Young(d, k) == k \in DOMAIN d /\ Age(now, d[k].timestamp) < CACHE_TTL_SECONDS

\* a get begun after the last set on its key had returned, answered absent
\* although that set is younger than the TTL
AbsentWhileYoung ==
    /\ last.op = "get"
    /\ enabled
    /\ last.settled
    /\ last.key \in DOMAIN lastSet
    /\ Age(last.t, lastSet[last.key].timestamp) < CACHE_TTL_SECONDS
    /\ ~last.result.some

\* C29: clear_expired may overlap gets and sets: no step of it removes from
\* either tier an entry younger than the TTL, and no get, whatever sweeps ran
\* before or during it, is answered absent for a key whose last completed
\* set is younger than the TTL.
C29_SweepSafe ==
    [][/\ \A p \in Procs, k \in DOMAIN memory_cache :
            (SweepsMemory(p) /\ Young(memory_cache, k))
            => (k \in DOMAIN memory_cache' /\ memory_cache'[k] = memory_cache[k])
       /\ \A p \in Procs, k \in DOMAIN db :
            (SweepsDurable(p) /\ Young(db, k))
            => (k \in DOMAIN db' /\ db'[k] = db[k])
       /\ ~AbsentWhileYoung']_vars

\* a sweep between its two halves, having dropped an expired entry from the
\* memory cache, while a set that began before it holds a young entry there
\* and awaits its INSERT
C29_Witness ==
    \E p \in Procs, q \in Procs :
        /\ task[p].pc = "sweep_delete"
        /\ task[q].pc = "set_insert"
        /\ Young(memory_cache, task[q].key)
        /\ \E k \in DOMAIN task[p].preMem :
            /\ k \notin DOMAIN memory_cache
            /\ k \in DOMAIN db
            /\ OlderThanCutoff(task[p].t, db[k].timestamp)

\* C30: sets on one key may overlap: once they have all returned, the two
\* tiers hold the value and the timestamp of one and the same set, and a get
\* of the key begun after that is answered with that value.
C30_TiersAgree ==
    (\A p \in Procs : Idle(p))
    => /\ \A k \in DOMAIN lastSet :
            (k \in DOMAIN memory_cache /\ k \in DOMAIN db)
            => /\ memory_cache[k].value = JsonLoads(db[k].value).value
               /\ memory_cache[k].timestamp = db[k].timestamp
       /\ (/\ last.op = "get"
           /\ last.settled
           /\ last.key \in DOMAIN lastSet
           /\ last.key \in DOMAIN db
           /\ last.result.some)
          => last.result = Some(JsonLoads(db[last.key].value).value)

----------------------------------------------------------------------------
(* The faint limit of the frustum query *)

\* C31: the faint limit of a frustum query is min(20, 15 + log10(max_distance
\* / 100)), never above 20, and a closer view reveals fainter points: the
\* limit for max_distance d1 is at least the limit for every d2 > d1.
C31_CloserSeesFainter ==
    (probe.fn = "frustum" /\ probe.done)
    => /\ probe.out.min_magnitude <= 20000000
       /\ probe.out.min_magnitude
            = Smaller(20000000, 15000000 + Log10Ratio(probe.args[3]))
       /\ \A d2 \in {1, 100, 1000, 10000000, 100000000} :
            d2 > probe.args[3]
            => probe.out.min_magnitude
                 >= QueryFrustum(probe.args[1], probe.args[2], d2, probe.args[4]).min_magnitude

----------------------------------------------------------------------------
(* The galactic-centre endpoint *)

\* C32: every request the galactic-centre endpoint accepts (radius in
\* [0.1, 20], max_stars in [100, 100000]) is served as the cone request at
\* ra 266.4, dec -29.0 with that radius, that max_stars and faint limit 18.0,
\* and is not rejected once its parameters have passed validation.
C32_GalacticIsCone ==
    (/\ probe.fn = "galactic" /\ probe.done
     /\ GalacticQueryValid(probe.args[1], probe.args[2]))
    => /\ probe.out.raised = "none"
       /\ probe.out.cone = ConeReq(266400000, -29000000, probe.args[1], probe.args[2],
                                   18000000)

----------------------------------------------------------------------------
(* The lifetime of a cache entry *)

\* C33: reading never extends the lifetime of an entry: no entry of either
\* tier carries a timestamp later than that of the last set on its key, and
\* a get at time t + TTL or later, t the time of that set, is answered
\* absent, whatever gets, promotions and restarts came between.
C33_ReadKeepsAge ==
    /\ \A k \in DOMAIN lastSet :
        /\ k \in DOMAIN memory_cache => memory_cache[k].timestamp <= lastSet[k].timestamp
        /\ k \in DOMAIN db => db[k].timestamp <= lastSet[k].timestamp
    /\ (/\ last.op = "get"
        /\ last.settled
        /\ last.key \in DOMAIN lastSet
        /\ Age(last.t, lastSet[last.key].timestamp) >= CACHE_TTL_SECONDS)
       => ~last.result.some

\* a get answered absent at the TTL exactly, for an entry that the memory
\* cache still held when the get began
C33_Witness ==
    /\ last.op = "get"
    /\ last.settled
    /\ last.key \in DOMAIN lastSet
    /\ Age(last.t, lastSet[last.key].timestamp) = CACHE_TTL_SECONDS
    /\ last.key \in DOMAIN last.preMem
    /\ ~last.result.some

----------------------------------------------------------------------------
(* The two tiers, calls one after the other and the durable tier working *)

\* sets, gets, sweeps and clear_all handled one after the other, the clock
\* advancing between them; no restart and no fault of the durable tier
NextPlain ==
    \/ \E p \in Procs : Get(p, TRUE)
    \/ \E p \in Procs : GetSelect(p)
    \/ \E p \in Procs : GetRow(p)
    \/ \E p \in Procs : GetDelete(p)
    \/ \E p \in Procs : Set(p, TRUE)
    \/ \E p \in Procs : SetInsert(p)
    \/ \E p \in Procs : ClearExpired(p, TRUE)
    \/ \E p \in Procs : SweepDelete(p)
    \/ \E p \in Procs : ClearAll(p, TRUE)
    \/ \E p \in Procs : ClearAllDelete(p)
    \/ Tick

SpecPlain == CacheInit /\ [][NextPlain]_vars

\* C34: with calls handled one after the other and the durable tier working,
\* after every operation each key of the volatile tier is in the durable
\* tier too, with the same value and the same timestamp.
C34_VolatileWithinDurable ==
    (\A p \in Procs : Idle(p))
    => \A k \in DOMAIN memory_cache :
        /\ k \in DOMAIN db
        /\ JsonLoads(db[k].value).ok
        /\ JsonLoads(db[k].value).value = memory_cache[k].value
        /\ db[k].timestamp = memory_cache[k].timestamp

\* a set has returned that replaced an older value of its key in both tiers
C34_Witness ==
    /\ \A p \in Procs : Idle(p)
    /\ last.op = "set"
    /\ last.key \in DOMAIN last.preMem
    /\ last.preMem[last.key].value # last.arg
    /\ last.preMem[last.key].timestamp < last.t
    /\ last.key \in DOMAIN memory_cache
    /\ memory_cache[last.key].value = last.arg
    /\ last.key \in DOMAIN db

----------------------------------------------------------------------------
(* Lazy expiry *)

\* C35: the delete of an expired row by get never destroys fresh data: when
\* a get of k that found an expired row and a set of k that overlapped it
\* have both returned, the durable tier holds for k the row the set wrote.
C35_DeleteSparesFresh ==
    (\A p \in Procs : Idle(p))
    => \A k \in DOMAIN lastSet :
        (lastSet[k].durable /\ Age(now, lastSet[k].timestamp) < CACHE_TTL_SECONDS)
        => /\ k \in DOMAIN db
           /\ db[k].timestamp = lastSet[k].timestamp

\* C36: sweep and get use one expiry boundary: clear_expired removes an entry
\* if and only if a get at that time would treat it as expired, the age equal
\* to the TTL included, so that after a sweep neither tier holds an entry
\* that get would refuse to return.
C36_OneBoundary ==
    (last.op = "clear_expired" /\ enabled /\ ~last.err)
    => /\ \A k \in DOMAIN last.preMem :
            k \in DOMAIN memory_cache <=> Fresh(last.t, last.preMem[k].timestamp)
       /\ \A k \in DOMAIN last.preDb :
            k \in DOMAIN db <=> Fresh(last.t, last.preDb[k].timestamp)

----------------------------------------------------------------------------
(* Failed requests and the cache *)

\* C37: a request that is answered with a failure has written nothing to the
\* cache: after the failure response neither tier holds an entry for the key
\* of the request that was not there before it.
C37_FailureWritesNothing ==
    (last.op = "api" /\ last.response.status = "error")
    => /\ last.key \in DOMAIN memory_cache
            => /\ last.key \in DOMAIN last.preMem
               /\ memory_cache[last.key] = last.preMem[last.key]
       /\ last.key \in DOMAIN db
            => /\ last.key \in DOMAIN last.preDb
               /\ db[last.key] = last.preDb[last.key]

\* a cone request answered with a failure, the cache enabled and holding the
\* result of an earlier request under another key
C37_Witness ==
    /\ last.op = "api"
    /\ last.req.kind = "cone"
    /\ last.response.status = "error"
    /\ enabled
    /\ last.key \notin DOMAIN memory_cache
    /\ last.key \notin DOMAIN db
    /\ DOMAIN memory_cache # {}

----------------------------------------------------------------------------
(* The colour of a point *)

\* C38: the colour of a point does not depend on the service that produced
\* it: for every colour index the mapping of the local catalog gives the RGB
\* triple the four-band piecewise-linear mapping of the upstream rows gives.
C38_OneColourMapping ==
    (probe.fn = "colour" /\ probe.done) => probe.out.local = probe.out.gaia

====
